---------------------------- MODULE Spec2Model ----------------------------
(***************************************************************************)
(* Agent-Runner: the callback notifier (callback.py), the fork lifecycle   *)
(* manager (github/repo.py), the PR reconciler (github/pr.py), the         *)
(* workflow dispatcher (github/workflow.py), the API gateway               *)
(* (github/client.py), the Job (models.py), scripts/commit_push.py and the *)
(* job orchestrator, modelled as state machines over one remote.  Each     *)
(* component has its own specification; the variables of the components a  *)
(* specification does not run stay at their idle values.                   *)
(*                                                                         *)
(* Strings the code splits or concatenates are sequences of one-character  *)
(* strings; byte strings are sequences of numbers 0..255.                  *)
(***************************************************************************)
EXTENDS Integers, Sequences, FiniteSets, TLC

VARIABLES
    \* CallbackHandler fields (callback.py:39-40)
    webhook_secret, allow_insecure,
    \* generate_signature / verify_signature under test
    sig_pc, sig_payload, sig_other, sig_value, sig_ok_same, sig_ok_other,
    sig_presented, sig_ok_presented,
    \* one send_callback call
    cb_pc, cb_url, cb_payload, cb_max_attempts, cb_backoff,
    cb_body, cb_headers, cb_attempt, cb_sent, cb_outcomes, cb_sleeps,
    cb_result, cb_raised,
    \* RepoManager fields (repo.py:41-44)
    fork_timeout, fork_poll_interval,
    \* the remote: the upstream repository and the repository at the
    \* candidate fork path
    remote_upstream, remote_candidate, faults_left,
    \* create_or_get_fork calls made in sequence by one caller
    fk_upstream, fk_call, fk_pc, fk_fork_repo, fk_default_branch, fk_path,
    fk_log, fk_faulted, fk_elapsed, fk_poll_time, fk_all_instant, fk_results,
    \* the answers of the latest readiness poll of the call
    fk_poll,
    \* two create_or_get_fork runs of two jobs, interleaved on one remote:
    \* the position and the requests of each
    race_pc, race_log,
    \* the pull requests of the upstream repository, newest first
    remote_prs,
    \* create_pr calls made in sequence by one caller
    pr_fork_repo, pr_branch, pr_call, pr_pc, pr_base, pr_head, pr_log,
    pr_faulted, pr_results,
    \* one trigger_workflow or dispatch call
    wf_pc, wf_op, wf_job, wf_sent, wf_outcome, wf_result,
    \* one Job (models.py:24-37), the clock its timestamps are read from, and
    \* the number of calls made on it
    job, job_now, job_calls,
    \* a mutation of the Job in progress, what another sequence last read of
    \* the Job, and the values the finished mutations left
    job_pc, job_seen, job_written,
    \* the orchestrator of one job: its position and the callback delivery
    \* sequences it started
    orch_pc, orch_deliveries,
    \* one GitHubClient (client.py:30-37): its connection, the connections
    \* created and open, and the calls made on it
    gw_client, gw_created, gw_open, gw_log,
    \* one run of scripts/commit_push.py: its position, the comparison it
    \* made, the variables it wrote to GITHUB_ENV, the git commands that
    \* change a repository, and its exit status
    cp_pc, cp_base_ref, cp_commits_ahead, cp_env, cp_cmds, cp_exit

sigVars == <<sig_pc, sig_payload, sig_other, sig_value, sig_ok_same, sig_ok_other,
             sig_presented, sig_ok_presented>>
cbVars == <<cb_pc, cb_url, cb_payload, cb_max_attempts, cb_backoff,
            cb_body, cb_headers, cb_attempt, cb_sent, cb_outcomes, cb_sleeps,
            cb_result, cb_raised>>
handlerVars == <<webhook_secret, allow_insecure>>
managerVars == <<fork_timeout, fork_poll_interval>>
remoteVars == <<remote_upstream, remote_candidate, faults_left>>
fkVars == <<fk_upstream, fk_call, fk_pc, fk_fork_repo, fk_default_branch, fk_path,
            fk_log, fk_faulted, fk_elapsed, fk_poll_time, fk_all_instant, fk_results,
            fk_poll>>
forkVars == <<managerVars, remoteVars, fkVars>>
raceVars == <<race_pc, race_log>>
prVars == <<remote_prs, pr_fork_repo, pr_branch, pr_call, pr_pc, pr_base, pr_head,
            pr_log, pr_faulted, pr_results>>
wfVars == <<wf_pc, wf_op, wf_job, wf_sent, wf_outcome, wf_result>>
jobVars == <<job, job_now, job_calls>>
observerVars == <<job_pc, job_seen, job_written>>
orchVars == <<orch_pc, orch_deliveries>>
gwVars == <<gw_client, gw_created, gw_open, gw_log>>
cpVars == <<cp_pc, cp_base_ref, cp_commits_ahead, cp_env, cp_cmds, cp_exit>>
vars == <<handlerVars, sigVars, cbVars, forkVars, raceVars, prVars, wfVars, jobVars,
          observerVars, orchVars, gwVars, cpVars>>

\* what the actions of one component leave alone, besides the variables
\* they name
frameSig == <<cbVars, forkVars, prVars, wfVars, jobVars, orchVars, gwVars, cpVars, raceVars, observerVars>>
frameCb == <<sigVars, forkVars, prVars, wfVars, jobVars, orchVars, gwVars, cpVars, raceVars, observerVars>>
frameFork == <<handlerVars, sigVars, cbVars, prVars, wfVars, jobVars, orchVars,
               gwVars, cpVars, raceVars, observerVars>>
framePr == <<handlerVars, sigVars, cbVars, managerVars, fkVars, wfVars, jobVars,
             orchVars, gwVars, cpVars, raceVars, observerVars>>
frameWf == <<handlerVars, sigVars, cbVars, forkVars, prVars, orchVars, gwVars,
             cpVars, raceVars, observerVars>>
frameJob == <<handlerVars, sigVars, cbVars, forkVars, prVars, wfVars, orchVars,
              gwVars, cpVars, raceVars, observerVars>>
frameRace == <<handlerVars, sigVars, cbVars, prVars, wfVars, jobVars, orchVars,
               gwVars, cpVars, observerVars>>
frameOrch == <<handlerVars, sigVars, forkVars, prVars, wfVars, gwVars, cpVars, raceVars, observerVars>>
frameGw == <<handlerVars, sigVars, cbVars, forkVars, prVars, wfVars, jobVars,
             orchVars, cpVars, raceVars, observerVars>>
frameCp == <<handlerVars, sigVars, cbVars, forkVars, prVars, wfVars, jobVars,
             orchVars, gwVars, raceVars, observerVars>>
frameObserved == <<handlerVars, sigVars, cbVars, forkVars, prVars, wfVars, orchVars,
                   gwVars, cpVars, raceVars>>

-----------------------------------------------------------------------------
(* Bounds *)

\* longest payload byte string
MaxPayloadLen == 2
\* largest max_attempts argument of send_callback
MaxAttempts == 4
\* largest backoff_seconds argument of send_callback
MaxBackoff == 2
\* longest upstream_repo argument of create_or_get_fork
MaxRepoLen == 3
\* largest fork_timeout, in seconds
MaxForkTimeout == 2
\* largest fork_poll_interval, in seconds
MaxPollInterval == 1
\* longest time one remote request takes, in seconds
MaxRequestTime == 1
\* most pull requests the upstream repository holds before the first call
MaxPulls == 2
\* most calls made on one GitHubClient
MaxGatewayCalls == 3
\* most calls made on one Job
MaxJobCalls == 3
\* most responses of one run that the remote's state does not decide
\* (a rate limit, a permission or server error, a transport failure)
MaxFaults == 1

-----------------------------------------------------------------------------
(* Values *)

\* Python's None
None == "None"

\* all sequences over S of length at most n
SeqsUpTo(S, n) == UNION {[1..k -> S] : k \in 0..n}

\* bytes a payload is made of
PayloadBytes == {48, 49}

\* secrets a handler is constructed with: unset, empty, and two non-empty ones
Secrets == {None, <<>>, <<"k">>, <<"s">>}

\* str.encode() of the characters used in secrets
Ord(c) == CASE c = "k" -> 107 [] c = "s" -> 115 [] OTHER -> 63

encode(s) == [i \in 1..Len(s) |-> Ord(s[i])]

\* truthiness, with the empty string taken for true
TruthyUnlessNone(s) == s # None

\* Python truthiness of an Optional[str]
Truthy(s) == s # None /\ s # <<>>

-----------------------------------------------------------------------------
(* Signatures: callback.py:42-80 *)

\* hmac.new(key, msg, sha256).digest(), idealised: a keyed digest without
\* collisions on the bounded domain (the length-prefixed key followed by the
\* message, every byte mixed with the inner pad 0x36).
hmac_digest(key, msg) ==
    LET raw == <<Len(key)>> \o key \o msg
    IN  [i \in 1..Len(raw) |-> (raw[i] + 54) % 256]

HexDigit(n) == CASE n = 0 -> "0" [] n = 1 -> "1" [] n = 2 -> "2" [] n = 3 -> "3"
                 [] n = 4 -> "4" [] n = 5 -> "5" [] n = 6 -> "6" [] n = 7 -> "7"
                 [] n = 8 -> "8" [] n = 9 -> "9" [] n = 10 -> "a" [] n = 11 -> "b"
                 [] n = 12 -> "c" [] n = 13 -> "d" [] n = 14 -> "e" [] OTHER -> "f"

\* .hexdigest(): two lowercase hex characters per byte
RECURSIVE hexdigest(_)
hexdigest(bytes) ==
    IF bytes = <<>> THEN ""
    ELSE HexDigit(Head(bytes) \div 16) \o HexDigit(Head(bytes) % 16)
         \o hexdigest(Tail(bytes))

\* a signature that does not depend on the payload
generate_signature_ignoring_payload(secret, payload) ==
    IF ~Truthy(secret) THEN ""
    ELSE "sha256=" \o hexdigest(hmac_digest(encode(secret), <<>>))

generate_signature(secret, payload) ==
    IF ~Truthy(secret) THEN ""
    ELSE "sha256=" \o hexdigest(hmac_digest(encode(secret), payload))

\* hmac.compare_digest: equality, in constant time
compare_digest(a, b) == a = b

\* lines 72-80, with allow_insecure tested before the secret
verify_signature_insecure_first(secret, insecure, payload, signature) ==
    IF insecure
    THEN TRUE
    ELSE IF ~Truthy(secret)
    THEN FALSE
    ELSE compare_digest(generate_signature(secret, payload), signature)

verify_signature(secret, insecure, payload, signature) ==
    IF ~Truthy(secret)
    THEN insecure
    ELSE compare_digest(generate_signature(secret, payload), signature)

SigIdle ==
    /\ sig_pc = "idle"
    /\ sig_payload = <<>>
    /\ sig_other = <<>>
    /\ sig_value = ""
    /\ sig_ok_same = FALSE
    /\ sig_ok_other = FALSE
    /\ sig_presented = ""
    /\ sig_ok_presented = FALSE

SigInit ==
    /\ sig_pc = "generate"
    /\ sig_payload \in SeqsUpTo(PayloadBytes, MaxPayloadLen)
    /\ sig_other \in SeqsUpTo(PayloadBytes, MaxPayloadLen)
    /\ sig_value = ""
    /\ sig_ok_same = FALSE
    /\ sig_ok_other = FALSE
    /\ sig_presented = ""
    /\ sig_ok_presented = FALSE

\* the sender signs sig_payload
SigGenerate ==
    /\ sig_pc = "generate"
    /\ sig_value' = generate_signature(webhook_secret, sig_payload)
    /\ sig_pc' = "verify"
    /\ UNCHANGED <<sig_payload, sig_other, sig_ok_same, sig_ok_other,
                   sig_presented, sig_ok_presented>>
    /\ UNCHANGED <<handlerVars, frameSig>>

\* the receiver verifies the signature against the signed payload and
\* against the other payload
SigVerify ==
    /\ sig_pc = "verify"
    /\ sig_ok_same' = verify_signature(webhook_secret, allow_insecure,
                                       sig_payload, sig_value)
    /\ sig_ok_other' = verify_signature(webhook_secret, allow_insecure,
                                        sig_other, sig_value)
    /\ sig_pc' = "done"
    /\ UNCHANGED <<sig_payload, sig_other, sig_value, sig_presented,
                   sig_ok_presented>>
    /\ UNCHANGED <<handlerVars, frameSig>>

\* signatures a webhook can present: none, a bare prefix, and the signature
\* of any payload under any secret
PresentedSignatures ==
    {"", "sha256="} \cup
    {generate_signature(secret, payload) :
        secret \in {<<"k">>, <<"s">>},
        payload \in SeqsUpTo(PayloadBytes, MaxPayloadLen)}

\* the receiver verifies a webhook with the body sig_other and the
\* signature header it presents
SigVerifyPresented(signature) ==
    /\ sig_pc = "done"
    /\ sig_presented' = signature
    /\ sig_ok_presented' = verify_signature(webhook_secret, allow_insecure,
                                            sig_other, signature)
    /\ sig_pc' = "checked"
    /\ UNCHANGED <<sig_payload, sig_other, sig_value, sig_ok_same, sig_ok_other>>
    /\ UNCHANGED <<handlerVars, frameSig>>

-----------------------------------------------------------------------------
(* send_callback: callback.py:82-152 *)

\* values a payload dict can hold besides the callback fields: two JSON
\* values and one object json cannot serialize
PayloadValues == {"0", "1", "obj"}

\* payload dicts, as the sequence of their <<key, value>> items
Payloads ==
    {<< <<"a", "0">> >>, << <<"a", "1">> >>, << <<"a", "0">>, <<"b", "1">> >>,
     << <<"a", "obj">> >>}

Serializable(p) == \A i \in 1..Len(p) : p[i][2] # "obj"

\* the JSON text of a key or of a value, one byte for each: None is null
Token(w) ==
    CASE w = "0" -> 48 [] w = "1" -> 49 [] w = None -> 110 [] w = "" -> 34
      [] w = "a" -> 97 [] w = "b" -> 98
      [] w = "job_id" -> 106 [] w = "status" -> 115 [] w = "pr_url" -> 112
      [] w = "error" -> 101 [] w = "upstream_repo" -> 117
      [] w = "fork_repo" -> 102 [] w = "branch" -> 114
      [] w = "completed" -> 99 [] w = "failed" -> 70
      [] w = "j1" -> 74 [] w = "boom" -> 66 [] w = "http://pr/1" -> 104
      [] w = "o/r" -> 111 [] w = "b/r" -> 116 [] w = "agent" -> 103
      [] w = "ValueError" -> 86 [] w = "TimeoutError" -> 84
      [] w = "Exception" -> 69 [] w = "RequestError" -> 82
      [] OTHER -> 63

\* the items of a dict: key ":" value, joined by ","
RECURSIVE dumps_items(_)
dumps_items(p) ==
    IF p = <<>> THEN <<>>
    ELSE <<Token(Head(p)[1]), 58, Token(Head(p)[2])>> \o
         (IF Tail(p) = <<>> THEN <<>> ELSE <<44>> \o dumps_items(Tail(p)))

\* json.dumps(payload).encode() of a serializable payload: "{" items "}"
json_dumps(p) == <<123>> \o dumps_items(p) \o <<125>>

\* outcomes of one client.post: a response status, a transport-level
\* httpx.RequestError, or any other exception
Statuses == {200, 302, 400, 404, 429, 500, 503}
Response(st) == [kind |-> "response", status |-> st]
RequestError == [kind |-> "RequestError", status |-> 0]
OtherException == [kind |-> "Exception", status |-> 0]
PostOutcomes == {Response(st) : st \in Statuses} \cup {RequestError, OtherException}

IsResponse(o) == o.kind = "response"
\* line 123
Success(o) == IsResponse(o) /\ o.status < 400
\* line 129 and line 143, with every status from 400 on retried
TransientAnyFailure(o) ==
    \/ o = RequestError
    \/ IsResponse(o) /\ ~Success(o)

\* line 129 and line 143
Transient(o) ==
    \/ o = RequestError
    \/ IsResponse(o) /\ ~Success(o) /\ (o.status = 429 \/ o.status >= 500)

\* line 87: max_attempts: int = 3
DefaultMaxAttempts == 4
\* line 88: backoff_seconds: float = 1.0
DefaultBackoff == 1

\* lines 208-214, with the status of a success
send_failure_callback_completed(job_id, error, upstream_repo, fork_repo) ==
    << <<"job_id", job_id>>, <<"status", "completed">>, <<"error", error>>,
       <<"upstream_repo", upstream_repo>>, <<"fork_repo", fork_repo>> >>

\* send_failure_callback, lines 208-214: the payload handed to send_callback
send_failure_callback(job_id, error, upstream_repo, fork_repo) ==
    << <<"job_id", job_id>>, <<"status", "failed">>, <<"error", error>>,
       <<"upstream_repo", upstream_repo>>, <<"fork_repo", fork_repo>> >>

\* send_success_callback, lines 177-184: the payload handed to send_callback
send_success_callback(job_id, pr_url, upstream_repo, fork_repo, branch) ==
    << <<"job_id", job_id>>, <<"status", "completed">>, <<"pr_url", pr_url>>,
       <<"upstream_repo", upstream_repo>>, <<"fork_repo", fork_repo>>,
       <<"branch", branch>> >>

\* the keys of a payload, and the value of one of them
Keys(p) == {p[i][1] : i \in 1..Len(p)}
Get(p, key) == p[CHOOSE i \in 1..Len(p) : p[i][1] = key][2]

CbIdle ==
    /\ cb_pc = "idle"
    /\ cb_url = ""
    /\ cb_payload = <<>>
    /\ cb_max_attempts = 0
    /\ cb_backoff = 0
    /\ cb_body = <<>>
    /\ cb_headers = {}
    /\ cb_attempt = 0
    /\ cb_sent = <<>>
    /\ cb_outcomes = <<>>
    /\ cb_sleeps = <<>>
    /\ cb_result = FALSE
    /\ cb_raised = None

CbInit ==
    /\ cb_pc = "call"
    /\ cb_url \in {"", "http://hook"}
    /\ cb_payload \in Payloads
    /\ cb_max_attempts \in 0..MaxAttempts
    /\ cb_backoff \in 1..MaxBackoff
    /\ cb_body = <<>>
    /\ cb_headers = {}
    /\ cb_attempt = 0
    /\ cb_sent = <<>>
    /\ cb_outcomes = <<>>
    /\ cb_sleeps = <<>>
    /\ cb_result = FALSE
    /\ cb_raised = None

\* return r
CbReturn(r) ==
    /\ cb_pc' = "done"
    /\ cb_result' = r
    /\ UNCHANGED cb_raised

\* the exception e leaves send_callback
CbRaise(e) ==
    /\ cb_pc' = "done"
    /\ cb_raised' = e
    /\ UNCHANGED cb_result

CbContinue == UNCHANGED <<cb_result, cb_raised>>

\* the attempts of the loop: range(1, max_attempts + 1) with one attempt less
LastAttemptShort(n) == n - 1

\* the attempts of the loop: range(1, max_attempts + 1)
LastAttempt(n) == n

\* lines 103-115: the URL check, serialization, signing, and the loop entry
CbCall ==
    /\ cb_pc = "call"
    /\ IF cb_url = "" \/ cb_url = None
       THEN /\ CbReturn(FALSE)
            /\ UNCHANGED <<cb_body, cb_headers, cb_attempt>>
       ELSE IF ~Serializable(cb_payload)
       THEN \* json.dumps raises TypeError, outside every try block
            /\ CbRaise("TypeError")
            /\ UNCHANGED <<cb_body, cb_headers, cb_attempt>>
       ELSE /\ cb_body' = json_dumps(cb_payload)
            /\ cb_headers' =
                 {<<"Content-Type", "application/json">>} \cup
                 (IF Truthy(webhook_secret)
                  THEN {<<"X-Signature-256",
                          generate_signature(webhook_secret, json_dumps(cb_payload))>>}
                  ELSE {})
            /\ IF 1 <= LastAttempt(cb_max_attempts)
               THEN /\ cb_attempt' = 1
                    /\ cb_pc' = "post"
                    /\ CbContinue
               ELSE \* the loop body never runs: line 152
                    /\ CbReturn(FALSE)
                    /\ UNCHANGED cb_attempt
    /\ UNCHANGED <<cb_url, cb_payload, cb_max_attempts, cb_backoff,
                   cb_sent, cb_outcomes, cb_sleeps>>
    /\ UNCHANGED <<handlerVars, frameCb>>

\* the for statement takes its next value, or the loop ends and line 152
\* returns False
CbAdvance ==
    IF cb_attempt + 1 <= LastAttempt(cb_max_attempts)
    THEN /\ cb_attempt' = cb_attempt + 1
         /\ cb_pc' = "post"
         /\ CbContinue
    ELSE /\ CbReturn(FALSE)
         /\ UNCHANGED cb_attempt

\* lines 116-149: one POST, the classification of its outcome, and the
\* test that decides whether a sleep follows
CbAttempt(o) ==
    /\ cb_pc = "post"
    /\ cb_sent' = Append(cb_sent, [url |-> cb_url, content |-> cb_body,
                                   headers |-> cb_headers])
    /\ cb_outcomes' = Append(cb_outcomes, o)
    /\ IF Success(o)
       THEN /\ CbReturn(TRUE)
            /\ UNCHANGED cb_attempt
       ELSE IF ~Transient(o)
       THEN \* another 4xx (line 142), or another exception (line 147)
            /\ CbReturn(FALSE)
            /\ UNCHANGED cb_attempt
       ELSE IF cb_attempt < cb_max_attempts
       THEN /\ cb_pc' = "sleep"
            /\ UNCHANGED cb_attempt
            /\ CbContinue
       ELSE CbAdvance
    /\ UNCHANGED <<cb_url, cb_payload, cb_max_attempts, cb_backoff,
                   cb_body, cb_headers, cb_sleeps>>
    /\ UNCHANGED <<handlerVars, frameCb>>

\* line 150, with the delay doubled from one attempt to the next
backoff_exponential(backoff_seconds, attempt) == backoff_seconds * 2 ^ (attempt - 1)

\* line 150: backoff_seconds * attempt
backoff_delay(backoff_seconds, attempt) == backoff_seconds * attempt

\* line 150: asyncio.sleep(backoff_seconds * attempt), then the next attempt
CbSleep ==
    /\ cb_pc = "sleep"
    /\ cb_sleeps' = Append(cb_sleeps, backoff_delay(cb_backoff, cb_attempt))
    /\ CbAdvance
    /\ UNCHANGED <<cb_url, cb_payload, cb_max_attempts, cb_backoff,
                   cb_body, cb_headers, cb_sent, cb_outcomes>>
    /\ UNCHANGED <<handlerVars, frameCb>>

-----------------------------------------------------------------------------
(* The remote, as the fork manager sees it *)

\* the bot account the manager is constructed with (repo.py:42)
BotUsername == <<"b">>

\* characters of an upstream_repo argument
RepoChars == {"a", "/"}

UpstreamRepos == SeqsUpTo(RepoChars, MaxRepoLen)

\* str.split("/")
RECURSIVE split(_)
split(s) ==
    IF s = <<>> THEN << <<>> >>
    ELSE LET rest == split(Tail(s))
         IN  IF Head(s) = "/"
             THEN << <<>> >> \o rest
             ELSE << <<Head(s)>> \o Head(rest) >> \o Tail(rest)

\* owner/name with a non-empty owner and a non-empty name
WellFormed(s) ==
    LET parts == split(s)
    IN  Len(parts) = 2 /\ parts[1] # <<>> /\ parts[2] # <<>>

\* a repository path the remote can hold a repository at
ValidPath(s) == WellFormed(s)

\* the repository at a path: absent, being created, or existing with its
\* "fork" flag, its parent's full_name (<<>> without a parent) and the number
\* of its branches
Absent == [state |-> "absent", fork |-> FALSE, parent |-> <<>>, branches |-> 0]
Repo(fork, parent, branches) ==
    [state |-> "exists", fork |-> fork, parent |-> parent, branches |-> branches]

\* another repository, not the upstream of any call
OtherParent == <<"z", "/", "z">>

\* what can be at the candidate path before the first call
CandidateStates(upstream) ==
    LET parts == split(upstream)
    IN  IF Len(parts) # 2 \/ ~ValidPath(BotUsername \o <<"/">> \o parts[2])
        THEN {Absent}
        ELSE {Absent, Repo(FALSE, <<>>, 1), Repo(TRUE, OtherParent, 1)} \cup
             (IF WellFormed(upstream)
              THEN {Repo(TRUE, upstream, b) : b \in 0..1}
              ELSE {})

UpstreamStates(upstream) ==
    {[exists |-> e, default_branch |-> "main"] :
        e \in (IF WellFormed(upstream) THEN BOOLEAN ELSE {FALSE})}

\* an answer the remote's state decides, and the answers it does not decide
Truthful(st) == [kind |-> "response", status |-> st, fault |-> FALSE]
Faults ==
    {[kind |-> "response", status |-> 403, fault |-> TRUE],
     [kind |-> "response", status |-> 500, fault |-> TRUE],
     [kind |-> "RequestError", status |-> 0, fault |-> TRUE]}

Answers(statuses) ==
    {Truthful(st) : st \in statuses} \cup (IF faults_left > 0 THEN Faults ELSE {})

\* GET /repos/{repo} and GET /repos/{repo}/branches
GetStatus(repo) == IF repo.state = "exists" THEN 200 ELSE 404

UseFault(o) ==
    /\ faults_left' = IF o.fault THEN faults_left - 1 ELSE faults_left
    /\ fk_faulted' = (fk_faulted \/ o.fault)

\* fork creation is asynchronous on the remote: the fork appears ...
RemoteForkAppears ==
    /\ remote_candidate.state = "creating"
    /\ remote_candidate' = [remote_candidate EXCEPT !.state = "exists"]
    /\ UNCHANGED <<remote_upstream, faults_left>>
    /\ UNCHANGED <<frameFork, managerVars, fkVars>>

\* ... and then gets its branches
RemoteForkReady ==
    /\ remote_candidate.state = "exists"
    /\ remote_candidate.fork
    /\ remote_candidate.branches = 0
    /\ remote_candidate' = [remote_candidate EXCEPT !.branches = 1]
    /\ UNCHANGED <<remote_upstream, faults_left>>
    /\ UNCHANGED <<frameFork, managerVars, fkVars>>

-----------------------------------------------------------------------------
(* Fork lifecycle manager: repo.py:46-159 *)

\* a request sent and the status it was answered with (0: no response)
Request(method, what, repo, o) ==
    [method |-> method, what |-> what, repo |-> repo, answer |-> o.status]

\* line 62: raise ValueError(f"Invalid upstream_repo format: ...")
InvalidFormatError == "ValueError"

\* lines 80-83: raise ValueError(f"Repository ... exists but is not a fork ...")
NamingConflictError == "ValueError"

\* the record of a finished call: what it returned or raised, and what it did
FkOutcome(kind, exc, msg, path, log, faulted, elapsed, poll_time, all_instant) ==
    [kind |-> kind, exc |-> exc, msg |-> msg,
     fork_repo |-> IF kind = "return" THEN fk_fork_repo ELSE <<>>,
     path |-> path, log |-> log, faulted |-> faulted,
     elapsed |-> elapsed, poll_time |-> poll_time, all_instant |-> all_instant]

\* the call ends; the primed per-call variables are set by the caller
FkEnd(kind, exc, msg) ==
    /\ fk_pc' = "done"
    /\ fk_results' = Append(fk_results,
          FkOutcome(kind, exc, msg, fk_path', fk_log', fk_faulted',
                    fk_elapsed', fk_poll_time', fk_all_instant'))

FkReturn == FkEnd("return", "", "")
FkRaise(exc, msg) == FkEnd("raise", exc, msg)

FkGoto(pc) ==
    /\ fk_pc' = pc
    /\ UNCHANGED fk_results

\* line 73, without the comparison of the parent
IsForkOfIgnoringParent(data, upstream_repo) == data.fork

\* line 73, with the parent's name compared instead of its full_name
IsForkOfByName(data, upstream_repo) ==
    data.fork /\ split(data.parent)[Len(split(data.parent))] = upstream_repo

\* line 73: fork_data.get("fork") and parent.full_name == upstream_repo
IsForkOf(data, upstream_repo) ==
    data.fork /\ data.parent = upstream_repo

\* no readiness poll was made
NoPoll == [repo |-> 0, branches |-> 0, listed |-> 0]

\* line 118: the branches branches_response.json() lists
Listed(o, repo) == IF o.kind = "response" /\ o.status = 200 THEN repo.branches ELSE 0

\* line 118, without the test of the listing
BranchesReadyAnyListing(o, listed) == o.status = 200

\* line 118: branches_response.status_code == 200 and branches_response.json()
BranchesReady(o, listed) == o.status = 200 /\ listed > 0

\* line 112, stopping when the next sleep would pass the deadline
WaitLoopTestEarly(elapsed) == elapsed + fork_poll_interval < fork_timeout

\* line 112: time.time() - start_time < self.fork_timeout
WaitLoopTest(elapsed) == elapsed < fork_timeout

\* lines 60-65: validation and the candidate path
FkCall ==
    /\ fk_pc = "call"
    /\ LET parts == split(fk_upstream)
       IN  IF Len(parts) # 2
           THEN /\ fk_path' = "invalid"
                /\ UNCHANGED fk_fork_repo
                /\ UNCHANGED <<fk_log, fk_faulted, fk_elapsed, fk_poll_time,
                               fk_all_instant>>
                /\ FkRaise(InvalidFormatError, "Invalid upstream_repo format")
           ELSE /\ fk_fork_repo' = BotUsername \o <<"/">> \o parts[2]
                /\ FkGoto("get_candidate")
                /\ UNCHANGED <<fk_path, fk_log, fk_faulted, fk_elapsed,
                               fk_poll_time, fk_all_instant>>
    /\ UNCHANGED <<fk_upstream, fk_call, fk_default_branch, fk_poll>>
    /\ UNCHANGED <<frameFork, managerVars, remoteVars>>

\* lines 68-86: the candidate query, the reuse test and the conflict
FkGetCandidate(o) ==
    /\ fk_pc = "get_candidate"
    /\ o \in Answers({GetStatus(remote_candidate)})
    /\ UseFault(o)
    /\ fk_log' = Append(fk_log, Request("GET", "repo", fk_fork_repo, o))
    /\ UNCHANGED <<fk_elapsed, fk_poll_time, fk_all_instant>>
    /\ IF o.kind = "RequestError"
       THEN /\ fk_path' = "transport"
            /\ FkRaise("RequestError", "")
       ELSE IF o.status = 200
       THEN IF IsForkOf(remote_candidate, fk_upstream)
            THEN /\ fk_path' = "reuse"
                 /\ FkGoto("sync_default")
            ELSE /\ fk_path' = "conflict"
                 /\ FkRaise(NamingConflictError, "exists but is not a fork")
       ELSE /\ fk_path' = "create"
            /\ FkGoto("post_fork")
    /\ UNCHANGED <<fk_upstream, fk_call, fk_fork_repo, fk_default_branch, fk_poll>>
    /\ UNCHANGED <<remote_upstream, remote_candidate>>
    /\ UNCHANGED <<frameFork, managerVars>>

\* sync_fork, lines 139-143 (client.py:75-91): the upstream's default branch;
\* every exception is caught, sync_fork returns False and line 77 returns
FkSyncDefault(o) ==
    /\ fk_pc = "sync_default"
    /\ o \in Answers({IF remote_upstream.exists THEN 200 ELSE 404})
    /\ UseFault(o)
    /\ fk_log' = Append(fk_log, Request("GET", "repo", fk_upstream, o))
    /\ UNCHANGED <<fk_path, fk_elapsed, fk_poll_time, fk_all_instant>>
    /\ IF o.kind = "response" /\ o.status = 200
       THEN /\ fk_default_branch' = remote_upstream.default_branch
            /\ FkGoto("sync_merge")
       ELSE /\ UNCHANGED fk_default_branch
            /\ FkReturn
    /\ UNCHANGED <<fk_upstream, fk_call, fk_fork_repo, fk_poll>>
    /\ UNCHANGED <<remote_upstream, remote_candidate>>
    /\ UNCHANGED <<frameFork, managerVars>>

\* sync_fork, lines 146-159: the merge-upstream POST, outside every try
\* block; whatever sync_fork returns, line 77 returns the fork
FkSyncMerge(o) ==
    /\ fk_pc = "sync_merge"
    /\ o \in Answers(IF remote_candidate.state = "exists" THEN {200, 409} ELSE {404})
    /\ UseFault(o)
    /\ fk_log' = Append(fk_log, Request("POST", "merge-upstream", fk_fork_repo, o))
    /\ UNCHANGED <<fk_path, fk_elapsed, fk_poll_time, fk_all_instant>>
    /\ IF o.kind = "RequestError"
       THEN FkRaise("RequestError", "")
       ELSE FkReturn
    /\ UNCHANGED <<fk_upstream, fk_call, fk_fork_repo, fk_default_branch, fk_poll>>
    /\ UNCHANGED <<remote_upstream, remote_candidate>>
    /\ UNCHANGED <<frameFork, managerVars>>

\* wait_for_fork, line 112 and line 125: another poll, or the deadline
FkWaitLoop ==
    IF WaitLoopTest(fk_elapsed')
    THEN FkGoto("wait_get")
    ELSE FkRaise("TimeoutError", "")

\* lines 87-96 and 110: the fork-creation POST, then wait_for_fork starts
FkPostFork(o) ==
    /\ fk_pc = "post_fork"
    /\ o \in Answers({IF remote_upstream.exists THEN 202 ELSE 404})
    /\ UseFault(o)
    /\ fk_log' = Append(fk_log, Request("POST", "forks", fk_upstream, o))
    /\ remote_candidate' =
         IF ~o.fault /\ o.status = 202 /\ remote_candidate.state = "absent"
         THEN [state |-> "creating", fork |-> TRUE, parent |-> fk_upstream,
               branches |-> 0]
         ELSE remote_candidate
    /\ UNCHANGED <<fk_path, fk_poll_time, fk_all_instant>>
    /\ fk_elapsed' = 0
    /\ IF o.kind = "RequestError"
       THEN FkRaise("RequestError", "")
       ELSE IF o.status \notin {202, 200}
       THEN FkRaise("Exception", "Failed to create fork")
       ELSE FkWaitLoop
    /\ UNCHANGED <<fk_upstream, fk_call, fk_fork_repo, fk_default_branch, fk_poll>>
    /\ UNCHANGED remote_upstream
    /\ UNCHANGED <<frameFork, managerVars>>

\* wait_for_fork, lines 113-115: the fork query of one poll, taking d seconds
FkWaitGet(o, d) ==
    /\ fk_pc = "wait_get"
    /\ o \in Answers({GetStatus(remote_candidate)})
    /\ UseFault(o)
    /\ fk_elapsed' = fk_elapsed + d
    /\ fk_poll_time' = d
    /\ fk_all_instant' = (fk_all_instant /\ d = 0)
    /\ UNCHANGED <<fk_path, fk_log>>
    /\ fk_poll' = [repo |-> o.status, branches |-> 0, listed |-> 0]
    /\ IF o.kind = "RequestError"
       THEN FkRaise("RequestError", "")
       ELSE IF o.status = 200
       THEN FkGoto("wait_branches")
       ELSE FkGoto("wait_sleep")
    /\ UNCHANGED <<fk_upstream, fk_call, fk_fork_repo, fk_default_branch>>
    /\ UNCHANGED <<remote_upstream, remote_candidate>>
    /\ UNCHANGED <<frameFork, managerVars>>

\* wait_for_fork, lines 117-120 and line 98: the branch listing of one poll
FkWaitBranches(o, d) ==
    /\ fk_pc = "wait_branches"
    /\ o \in Answers({GetStatus(remote_candidate)})
    /\ UseFault(o)
    /\ fk_elapsed' = fk_elapsed + d
    /\ fk_poll_time' = fk_poll_time + d
    /\ fk_all_instant' = (fk_all_instant /\ d = 0)
    /\ UNCHANGED <<fk_path, fk_log>>
    /\ fk_poll' = [fk_poll EXCEPT !.branches = o.status,
                                  !.listed = Listed(o, remote_candidate)]
    /\ IF o.kind = "RequestError"
       THEN FkRaise("RequestError", "")
       ELSE IF BranchesReady(o, Listed(o, remote_candidate))
       THEN FkReturn
       ELSE FkGoto("wait_sleep")
    /\ UNCHANGED <<fk_upstream, fk_call, fk_fork_repo, fk_default_branch>>
    /\ UNCHANGED <<remote_upstream, remote_candidate>>
    /\ UNCHANGED <<frameFork, managerVars>>

\* wait_for_fork, line 123: asyncio.sleep(fork_poll_interval), then line 112
FkWaitSleep ==
    /\ fk_pc = "wait_sleep"
    /\ fk_elapsed' = fk_elapsed + fork_poll_interval
    /\ UNCHANGED <<fk_path, fk_log, fk_faulted, fk_poll_time, fk_all_instant>>
    /\ FkWaitLoop
    /\ UNCHANGED <<fk_upstream, fk_call, fk_fork_repo, fk_default_branch, fk_poll>>
    /\ UNCHANGED remoteVars
    /\ UNCHANGED <<frameFork, managerVars>>

FkFresh ==
    /\ fk_pc = "call"
    /\ fk_fork_repo = <<>>
    /\ fk_default_branch = ""
    /\ fk_path = "none"
    /\ fk_log = <<>>
    /\ fk_faulted = FALSE
    /\ fk_elapsed = 0
    /\ fk_poll_time = 0
    /\ fk_all_instant = TRUE
    /\ fk_poll = NoPoll

\* the caller calls create_or_get_fork a second time, with the same argument
FkCallAgain ==
    /\ fk_pc = "done"
    /\ fk_call < 2
    /\ fk_call' = fk_call + 1
    /\ fk_pc' = "call"
    /\ fk_fork_repo' = <<>>
    /\ fk_default_branch' = ""
    /\ fk_path' = "none"
    /\ fk_log' = <<>>
    /\ fk_faulted' = FALSE
    /\ fk_elapsed' = 0
    /\ fk_poll_time' = 0
    /\ fk_all_instant' = TRUE
    /\ fk_poll' = NoPoll
    /\ UNCHANGED <<fk_upstream, fk_results>>
    /\ UNCHANGED <<frameFork, managerVars, remoteVars>>

FkIdle ==
    /\ fk_upstream = <<>>
    /\ fk_call = 0
    /\ fk_pc = "idle"
    /\ fk_fork_repo = <<>>
    /\ fk_default_branch = ""
    /\ fk_path = "none"
    /\ fk_log = <<>>
    /\ fk_faulted = FALSE
    /\ fk_elapsed = 0
    /\ fk_poll_time = 0
    /\ fk_all_instant = TRUE
    /\ fk_poll = NoPoll
    /\ fk_results = <<>>

ForkIdle ==
    /\ fork_timeout = 0
    /\ fork_poll_interval = 0
    /\ remote_upstream = [exists |-> FALSE, default_branch |-> "main"]
    /\ remote_candidate = Absent
    /\ faults_left = 0
    /\ FkIdle

ForkInit ==
    /\ fork_timeout \in 0..MaxForkTimeout
    /\ fork_poll_interval \in 0..MaxPollInterval
    /\ fk_upstream \in UpstreamRepos
    /\ remote_upstream \in UpstreamStates(fk_upstream)
    /\ remote_candidate \in CandidateStates(fk_upstream)
    /\ faults_left = MaxFaults
    /\ fk_call = 1
    /\ FkFresh
    /\ fk_results = <<>>

-----------------------------------------------------------------------------
(* Two jobs on one upstream: repo.py:60-96, run twice and interleaved *)

\* the two runs, one per job
Runs == {1, 2}

\* the upstream repository both jobs name, and the candidate fork path
RaceUpstream == <<"a", "/", "a">>
RaceForkRepo == BotUsername \o <<"/">> \o split(RaceUpstream)[2]

\* lines 67-90 with a lock held from the candidate query to the answer of
\* the creation request
ForkWindowExclusive(r) ==
    \A q \in Runs \ {r} : race_pc[q] # "post_fork"

\* lines 67-90: every request is awaited and nothing is acquired around the
\* query and the creation request, so a run is never kept waiting for another
ForkWindowOpen(r) == TRUE

RaceGoto(r, pc, request) ==
    /\ race_pc' = [race_pc EXCEPT ![r] = pc]
    /\ race_log' = [race_log EXCEPT ![r] = Append(@, request)]

\* lines 68-86 of one run: the candidate query; on the reuse path control
\* enters sync_fork, on the creation path it goes on to the POST
RaceGetCandidate(r, o) ==
    /\ race_pc[r] = "get_candidate"
    /\ ForkWindowOpen(r)
    /\ o \in Answers({GetStatus(remote_candidate)})
    /\ faults_left' = IF o.fault THEN faults_left - 1 ELSE faults_left
    /\ RaceGoto(r,
                IF o.kind = "RequestError" THEN "raised"
                ELSE IF o.status = 200
                THEN IF IsForkOf(remote_candidate, RaceUpstream)
                     THEN "sync" ELSE "raised"
                ELSE "post_fork",
                Request("GET", "repo", RaceForkRepo, o))
    /\ UNCHANGED <<remote_upstream, remote_candidate>>
    /\ UNCHANGED <<frameRace, managerVars, fkVars>>

\* lines 87-96 of one run: the fork-creation POST; after a 200 or a 202
\* control enters wait_for_fork
RacePostFork(r, o) ==
    /\ race_pc[r] = "post_fork"
    /\ o \in Answers({IF remote_upstream.exists THEN 202 ELSE 404})
    /\ faults_left' = IF o.fault THEN faults_left - 1 ELSE faults_left
    /\ remote_candidate' =
         IF ~o.fault /\ o.status = 202 /\ remote_candidate.state = "absent"
         THEN [state |-> "creating", fork |-> TRUE, parent |-> RaceUpstream,
               branches |-> 0]
         ELSE remote_candidate
    /\ RaceGoto(r,
                IF o.kind = "response" /\ o.status \in {202, 200}
                THEN "wait" ELSE "raised",
                Request("POST", "forks", RaceUpstream, o))
    /\ UNCHANGED remote_upstream
    /\ UNCHANGED <<frameRace, managerVars, fkVars>>

RaceIdle ==
    /\ race_pc = [r \in Runs |-> "idle"]
    /\ race_log = [r \in Runs |-> <<>>]

RaceInit ==
    /\ race_pc = [r \in Runs |-> "get_candidate"]
    /\ race_log = [r \in Runs |-> <<>>]

-----------------------------------------------------------------------------
(* The remote's pull requests *)

\* head references of the pull requests the upstream repository holds
PullHeads == {<<"b", ":", "f">>, <<"c", ":", "f">>}

DefaultBranches == {"main", "dev"}

PullShapes == [head : PullHeads, base : DefaultBranches, state : {"open", "closed"}]

\* the remote numbers the pull requests; the list is newest first
Numbered(shapes) ==
    [i \in 1..Len(shapes) |->
        [head |-> shapes[i].head, base |-> shapes[i].base,
         state |-> shapes[i].state, html_url |-> Len(shapes) - i + 1]]

\* the remote refuses a second open pull request for one head and base
NoDuplicate(prs) ==
    \A i, j \in 1..Len(prs) :
        (i # j /\ prs[i].state = "open" /\ prs[j].state = "open") =>
            (prs[i].head # prs[j].head \/ prs[i].base # prs[j].base)

PullLists ==
    {Numbered(shapes) : shapes \in {x \in SeqsUpTo(PullShapes, MaxPulls) : NoDuplicate(x)}}

HasOpen(prs, head, base) ==
    \E i \in 1..Len(prs) :
        prs[i].state = "open" /\ prs[i].head = head /\ prs[i].base = base

\* GET /repos/{repo}/pulls?head=..&state=..&per_page=..
RemoteListPulls(prs, head, state, per_page) ==
    LET Match(pr) == pr.head = head /\ (state = "all" \/ pr.state = state)
        found == SelectSeq(prs, Match)
    IN  SubSeq(found, 1, IF Len(found) < per_page THEN Len(found) ELSE per_page)

\* response bodies, as the words of "message" and of the "errors" messages
Body(status, message, errors, fault) ==
    [kind |-> "response", status |-> status, fault |-> fault,
     message |-> message, errors |-> errors]

NoResponse ==
    [kind |-> "RequestError", status |-> 0, fault |-> TRUE,
     message |-> <<>>, errors |-> <<>>]

PullFaults ==
    {Body(403, <<"Forbidden">>, <<>>, TRUE),
     Body(500, <<"Server", "Error">>, <<>>, TRUE),
     NoResponse}

PullExists ==
    Body(422, <<"Validation", "Failed">>,
         << <<"A", "pull", "request", "already", "exists", "for", "head">> >>, FALSE)

NoCommits ==
    Body(422, <<"Validation", "Failed">>,
         << <<"No", "commits", "between", "base", "and", "head">> >>, FALSE)

PullCreated == Body(201, <<>>, <<>>, FALSE)

PullAnswers(truthful) == truthful \cup (IF faults_left > 0 THEN PullFaults ELSE {})

-----------------------------------------------------------------------------
(* PR reconciler: pr.py:25-122 *)

\* str.lower() of the words of the response bodies
Lower(w) == CASE w = "A" -> "a" [] w = "No" -> "no" [] w = "Validation" -> "validation"
              [] w = "Failed" -> "failed" [] w = "Forbidden" -> "forbidden"
              [] w = "Server" -> "server" [] w = "Error" -> "error" [] OTHER -> w

LowerAll(ws) == [i \in 1..Len(ws) |-> Lower(ws[i])]

\* " ".join(e.get("message", "") for e in errors)
RECURSIVE JoinAll(_)
JoinAll(errors) == IF errors = <<>> THEN <<>> ELSE Head(errors) \o JoinAll(Tail(errors))

\* "already exists" in text
Contains(ws, pat) ==
    \E i \in 1..(Len(ws) - Len(pat) + 1) : SubSeq(ws, i, i + Len(pat) - 1) = pat

\* line 82
AlreadyExists(o) ==
    \/ Contains(LowerAll(o.message), <<"already", "exists">>)
    \/ Contains(LowerAll(JoinAll(o.errors)), <<"already", "exists">>)

\* lines 58-59: head = f"{fork_owner}:{branch}"
PrHead(fork_repo, branch) == split(fork_repo)[1] \o <<":">> \o branch

\* line 92, asking for the pull requests of every state
PrDiscoveryStateAll == "all"

\* line 92: state: str = "open"
PrDiscoveryState == "open"

PrRequest(method, what, head, base, o) ==
    [method |-> method, what |-> what, head |-> head, base |-> base,
     answer |-> o.status, already |-> AlreadyExists(o)]

PrEnd(kind, exc, url, via) ==
    /\ pr_pc' = "done"
    /\ pr_results' = Append(pr_results,
          [kind |-> kind, exc |-> exc, html_url |-> url, via |-> via,
           log |-> pr_log', faulted |-> pr_faulted'])

PrGoto(pc) ==
    /\ pr_pc' = pc
    /\ UNCHANGED pr_results

PrUseFault(o) ==
    /\ faults_left' = IF o.fault THEN faults_left - 1 ELSE faults_left
    /\ pr_faulted' = (pr_faulted \/ o.fault)

\* line 55, with the base always "main"
PrBaseMain(default_branch) == "main"

\* line 55: base = await self.client.get_default_branch(upstream_repo)
PrBase(default_branch) == default_branch

\* lines 55-59 (client.py:75-91): the base, resolved in this call, and the head
PrGetDefault(o) ==
    /\ pr_pc = "get_default"
    /\ o \in PullAnswers({Body(IF remote_upstream.exists THEN 200 ELSE 404,
                               <<>>, <<>>, FALSE)})
    /\ PrUseFault(o)
    /\ pr_log' = Append(pr_log,
          PrRequest("GET", "repo", <<>>,
                    IF o.kind = "response" /\ o.status = 200
                    THEN remote_upstream.default_branch ELSE "", o))
    /\ IF o.kind = "RequestError"
       THEN /\ PrEnd("raise", "RequestError", 0, "")
            /\ UNCHANGED <<pr_base, pr_head>>
       ELSE IF o.status # 200
       THEN /\ PrEnd("raise", "Exception", 0, "")
            /\ UNCHANGED <<pr_base, pr_head>>
       ELSE /\ pr_base' = PrBase(remote_upstream.default_branch)
            /\ pr_head' = PrHead(pr_fork_repo, pr_branch)
            /\ PrGoto("post")
    /\ UNCHANGED <<remote_prs, pr_fork_repo, pr_branch, pr_call>>
    /\ UNCHANGED <<remote_upstream, remote_candidate>>
    /\ UNCHANGED framePr

\* lines 61-86: the creation POST and the classification of its answer
PrPost(o) ==
    /\ pr_pc = "post"
    /\ o \in PullAnswers(IF HasOpen(remote_prs, pr_head, pr_base)
                         THEN {PullExists}
                         ELSE {PullCreated, NoCommits})
    /\ PrUseFault(o)
    /\ pr_log' = Append(pr_log, PrRequest("POST", "pulls", pr_head, pr_base, o))
    /\ IF o.kind = "RequestError"
       THEN /\ PrEnd("raise", "RequestError", 0, "")
            /\ UNCHANGED remote_prs
       ELSE IF o.status = 201
       THEN /\ remote_prs' =
                 << [head |-> pr_head, base |-> pr_base, state |-> "open",
                     html_url |-> Len(remote_prs) + 1] >> \o remote_prs
            /\ PrEnd("return", "", Len(remote_prs) + 1, "created")
       ELSE IF AlreadyExists(o)
       THEN /\ PrGoto("discover")
            /\ UNCHANGED remote_prs
       ELSE /\ PrEnd("raise", "Exception", 0, "")
            /\ UNCHANGED remote_prs
    /\ UNCHANGED <<pr_fork_repo, pr_branch, pr_call, pr_base, pr_head>>
    /\ UNCHANGED <<remote_upstream, remote_candidate>>
    /\ UNCHANGED framePr

\* lines 117-122, with an empty URL returned when no pull request is listed
PrFoundOrNothing(o, prs) ==
    IF o.kind = "RequestError"
    THEN PrEnd("raise", "RequestError", 0, "")
    ELSE IF o.status = 200 /\ prs # <<>>
    THEN PrEnd("return", "", prs[1].html_url, "discovered")
    ELSE PrEnd("return", "", 0, "discovered")

\* lines 117-122: the first listed pull request's URL, or the exception
PrFound(o, prs) ==
    IF o.kind = "RequestError"
    THEN PrEnd("raise", "RequestError", 0, "")
    ELSE IF o.status = 200 /\ prs # <<>>
    THEN PrEnd("return", "", prs[1].html_url, "discovered")
    ELSE PrEnd("raise", "Exception", 0, "")

\* find_existing_pr, lines 108-122: the open pull requests of the head, the
\* first one's URL
PrDiscover(o) ==
    /\ pr_pc = "discover"
    /\ o \in PullAnswers({Body(200, <<>>, <<>>, FALSE)})
    /\ PrUseFault(o)
    /\ pr_log' = Append(pr_log, PrRequest("GET", "pulls", pr_head, PrDiscoveryState, o))
    /\ PrFound(o, RemoteListPulls(remote_prs, pr_head, PrDiscoveryState, 1))
    /\ UNCHANGED <<remote_prs, pr_fork_repo, pr_branch, pr_call, pr_base, pr_head>>
    /\ UNCHANGED <<remote_upstream, remote_candidate>>
    /\ UNCHANGED framePr

\* the caller calls create_pr again, with the same arguments
PrCallAgain ==
    /\ pr_pc = "done"
    /\ pr_call < 2
    /\ pr_call' = pr_call + 1
    /\ pr_pc' = "get_default"
    /\ pr_base' = ""
    /\ pr_head' = <<>>
    /\ pr_log' = <<>>
    /\ pr_faulted' = FALSE
    /\ UNCHANGED <<remote_prs, pr_fork_repo, pr_branch, pr_results>>
    /\ UNCHANGED remoteVars
    /\ UNCHANGED framePr

\* other actors on the remote: the upstream's default branch is changed ...
RemoteRenamesDefault ==
    /\ pr_pc # "idle"
    /\ \E b \in DefaultBranches \ {remote_upstream.default_branch} :
          remote_upstream' = [remote_upstream EXCEPT !.default_branch = b]
    /\ UNCHANGED <<remote_candidate, faults_left>>
    /\ UNCHANGED <<remote_prs, pr_fork_repo, pr_branch, pr_call, pr_pc, pr_base,
                   pr_head, pr_log, pr_faulted, pr_results>>
    /\ UNCHANGED framePr

\* ... and an open pull request is closed or merged
RemoteClosesPull(i) ==
    /\ pr_pc # "idle"
    /\ i \in 1..Len(remote_prs)
    /\ remote_prs[i].state = "open"
    /\ remote_prs' = [remote_prs EXCEPT ![i].state = "closed"]
    /\ UNCHANGED remoteVars
    /\ UNCHANGED <<pr_fork_repo, pr_branch, pr_call, pr_pc, pr_base, pr_head, pr_log,
                   pr_faulted, pr_results>>
    /\ UNCHANGED framePr

PrIdle ==
    /\ remote_prs = <<>>
    /\ pr_fork_repo = <<>>
    /\ pr_branch = <<>>
    /\ pr_call = 0
    /\ pr_pc = "idle"
    /\ pr_base = ""
    /\ pr_head = <<>>
    /\ pr_log = <<>>
    /\ pr_faulted = FALSE
    /\ pr_results = <<>>

PrInit ==
    /\ remote_prs \in PullLists
    /\ pr_fork_repo = <<"b", "/", "a">>
    /\ pr_branch = <<"f">>
    /\ pr_call = 1
    /\ pr_pc = "get_default"
    /\ pr_base = ""
    /\ pr_head = <<>>
    /\ pr_log = <<>>
    /\ pr_faulted = FALSE
    /\ pr_results = <<>>

-----------------------------------------------------------------------------
(* Job: models.py:11-71 *)

\* JobStatus, lines 13-20
PENDING == "pending"
FORKING == "forking"
FORK_READY == "fork_ready"
TRIGGERED == "triggered"
RUNNING == "running"
COMPLETED == "completed"
FAILED == "failed"
CANCELLED == "cancelled"

JobStatus ==
    {PENDING, FORKING, FORK_READY, TRIGGERED, RUNNING, COMPLETED, FAILED, CANCELLED}

\* arguments of mark_failed (error: str) and mark_completed (pr_url:
\* Optional[str] = None)
JobErrors == {"", "boom"}
JobPrUrls == {None, "http://pr/1"}

\* Job(job_id, upstream_repo, prompt): the defaults of lines 29-37
Job(callback_url, t) ==
    [callback_url |-> callback_url, status |-> PENDING, fork_repo |-> None,
     branch |-> None, pr_url |-> None, error |-> None,
     created_at |-> t, updated_at |-> t]

\* lines 56-59
update_status(j, status, t) ==
    [j EXCEPT !.status = status, !.updated_at = t]

\* lines 61-65
mark_completed(j, pr_url, t) ==
    [j EXCEPT !.status = COMPLETED, !.pr_url = pr_url, !.updated_at = t]

\* lines 67-71
mark_failed(j, error, t) ==
    [j EXCEPT !.status = FAILED, !.error = error, !.updated_at = t]

\* datetime.now(timezone.utc) of one call: the clock does not go back
Now == {job_now, job_now + 1}

JobCalled ==
    /\ job_calls < MaxJobCalls
    /\ job_calls' = job_calls + 1
    /\ job_now' = job'.updated_at
    /\ UNCHANGED frameJob

JobUpdateStatus(status, t) ==
    /\ job' = update_status(job, status, t)
    /\ JobCalled

JobMarkCompleted(pr_url, t) ==
    /\ job' = mark_completed(job, pr_url, t)
    /\ JobCalled

JobMarkFailed(error, t) ==
    /\ job' = mark_failed(job, error, t)
    /\ JobCalled

\* status and updated_at, as one reader sees them together (to_dict, lines
\* 46 and 53)
Pair(j) == [status |-> j.status, updated_at |-> j.updated_at]

\* lines 56-71 run by threads: another sequence may run between any two
\* statements
SuspendedAnywhere(pc) == TRUE

\* lines 56-71: the mutators are plain methods without an await, so the
\* sequence that runs one is suspended, and another sequence runs, only
\* before or after the whole method
Suspended(pc) == pc = "idle"

\* line 58, lines 63-64, lines 69-70: the assignments before the timestamp
JobAssign(method, status) ==
    /\ job_pc = "idle"
    /\ job_calls < MaxJobCalls
    /\ job' = CASE method = "update_status" -> [job EXCEPT !.status = status]
                [] method = "mark_completed" ->
                      [job EXCEPT !.status = COMPLETED, !.pr_url = "http://pr/1"]
                [] method = "mark_failed" ->
                      [job EXCEPT !.status = FAILED, !.error = "boom"]
    /\ job_pc' = "stamp"
    /\ UNCHANGED <<job_now, job_calls, job_seen, job_written>>
    /\ UNCHANGED frameObserved

\* line 59, line 65, line 71: self.updated_at = datetime.now(timezone.utc)
JobStamp(t) ==
    /\ job_pc = "stamp"
    /\ job' = [job EXCEPT !.updated_at = t]
    /\ job_pc' = "idle"
    /\ job_written' = job_written \cup {Pair(job')}
    /\ job_now' = t
    /\ job_calls' = job_calls + 1
    /\ UNCHANGED job_seen
    /\ UNCHANGED frameObserved

\* another job sequence, or an observer, reads the Job when it runs
JobObserve ==
    /\ Suspended(job_pc)
    /\ job_seen' = Pair(job)
    /\ UNCHANGED <<job, job_now, job_calls, job_pc, job_written>>
    /\ UNCHANGED frameObserved

ObserverIdle ==
    /\ job_pc = "idle"
    /\ job_seen = Pair(Job(None, 0))
    /\ job_written = {Pair(Job(None, 0))}

ObserverInit ==
    /\ job_pc = "idle"
    /\ job_seen = Pair(job)
    /\ job_written = {Pair(job)}

JobIdle ==
    /\ job = Job(None, 0)
    /\ job_now = 0
    /\ job_calls = 0

JobInit ==
    /\ job \in {Job(u, 0) : u \in {None, "http://hook"}}
    /\ job_now = 0
    /\ job_calls = 0

-----------------------------------------------------------------------------
(* Workflow dispatcher: workflow.py:33-110 *)

WfStatuses == {200, 201, 202, 204, 400, 404, 422, 429, 500, 503}

WfOutcomes ==
    {[kind |-> "response", status |-> st] : st \in WfStatuses}
    \cup {[kind |-> "RequestError", status |-> 0]}

\* the Job trigger_workflow is called with; dispatch gets its fields as
\* arguments
WfJobs ==
    {[Job(u, 0) EXCEPT !.fork_repo = f, !.status = st] :
        u \in {None, "http://hook"}, f \in {None, "b/r"}, st \in {FORK_READY, PENDING}}

\* x or ""
OrEmpty(x) == IF x = None THEN "" ELSE x

\* lines 64 and 107, with every 2xx status accepted
WfAcceptedAny2xx(status) == status >= 200 /\ status < 300

\* lines 64 and 107: response.status_code != 204 raises
WfAccepted(status) == status = 204

\* lines 50-67, with the job marked as triggered once the POST is accepted
JobAfterDispatchTriggered(j, o) ==
    IF o.kind = "response" /\ o.status = 204
    THEN [j EXCEPT !.status = TRIGGERED]
    ELSE j

\* lines 50-67 and 93-110: the Job is read (lines 55-59), never assigned
JobAfterDispatch(j, o) == j

\* lines 50-67 (trigger_workflow) and 93-110 (dispatch): one POST
WfCall(o) ==
    /\ wf_pc = "call"
    /\ wf_sent' = Append(wf_sent,
          [what |-> "dispatches",
           fork_repo |-> IF wf_op = "trigger_workflow"
                         THEN OrEmpty(wf_job.fork_repo) ELSE wf_job.fork_repo,
           callback_url |-> OrEmpty(wf_job.callback_url)])
    /\ wf_outcome' = o
    /\ wf_result' = IF o.kind = "RequestError" THEN "RequestError"
                    ELSE IF WfAccepted(o.status) THEN "return"
                    ELSE "Exception"
    /\ wf_pc' = "done"
    /\ job' = JobAfterDispatch(job, o)
    /\ UNCHANGED <<job_now, job_calls>>
    /\ UNCHANGED <<wf_op, wf_job>>
    /\ UNCHANGED frameWf

WfIdle ==
    /\ wf_pc = "idle"
    /\ wf_op = ""
    /\ wf_job = Job(None, 0)
    /\ wf_sent = <<>>
    /\ wf_outcome = [kind |-> "none", status |-> 0]
    /\ wf_result = ""

WfInit ==
    /\ wf_pc = "call"
    /\ wf_op \in {"trigger_workflow", "dispatch"}
    /\ wf_job \in WfJobs
    /\ wf_sent = <<>>
    /\ wf_outcome = [kind |-> "none", status |-> 0]
    /\ wf_result = ""

-----------------------------------------------------------------------------
(* scripts/commit_push.py: main, lines 66-176 *)

\* the return code of a git command that failed
GitFailure == 128

\* the output of git rev-list --count
CommitCounts == {"0", "1", "2"}

\* run_cmd(..., check=True) of lines 34-38 ends the script with the
\* command's return code
CpExit(code) ==
    /\ cp_pc' = "done"
    /\ cp_exit' = code

CpGoto(pc) ==
    /\ cp_pc' = pc
    /\ UNCHANGED cp_exit

\* lines 134-138, with the variables left unwritten
CpRecordNoChangesNothing == <<>>

\* lines 136-137: set_github_env("HAS_CHANGES", "false") and ("PR_URL", "")
CpRecordNoChanges == << <<"HAS_CHANGES", "false">>, <<"PR_URL", "">> >>

\* lines 73-93: git config, git add -A, and the commit of what is staged
CpStage(config_ok, add_ok, staged, commit_ok) ==
    /\ cp_pc = "stage"
    /\ IF ~config_ok \/ ~add_ok
       THEN /\ CpExit(GitFailure)
            /\ UNCHANGED cp_cmds
       ELSE IF staged
       THEN /\ cp_cmds' = Append(cp_cmds, "commit")
            /\ IF commit_ok THEN CpGoto("compare") ELSE CpExit(GitFailure)
       ELSE /\ CpGoto("compare")
            /\ UNCHANGED cp_cmds
    /\ UNCHANGED <<cp_base_ref, cp_commits_ahead, cp_env>>
    /\ UNCHANGED frameCp

\* lines 96-138: the commits ahead of the upstream's default branch, or of
\* origin's when the upstream cannot be compared with; zero commits end the
\* script
CpCompare(upstream_repo, fetch_ok, upstream_count, origin_count) ==
    /\ cp_pc = "compare"
    /\ LET ahead == IF upstream_repo /\ fetch_ok THEN upstream_count ELSE None
           base == IF ahead # None THEN "upstream" ELSE "origin"
           commits_ahead == IF ahead # None THEN ahead ELSE origin_count
       IN  /\ cp_base_ref' = base
           /\ IF commits_ahead = None
              THEN \* line 129: return 1
                   /\ CpExit(1)
                   /\ UNCHANGED <<cp_commits_ahead, cp_env>>
              ELSE /\ cp_commits_ahead' = commits_ahead
                   /\ IF commits_ahead = "0"
                      THEN /\ cp_env' = cp_env \o CpRecordNoChanges
                           /\ CpExit(0)
                      ELSE /\ UNCHANGED cp_env
                           /\ CpGoto("push")
    /\ UNCHANGED cp_cmds
    /\ UNCHANGED frameCp

\* lines 144-176: the remote URL, HAS_CHANGES=true, the push and its
\* force-with-lease fallback
CpPush(seturl_ok, revparse_ok, push_ok, force_ok) ==
    /\ cp_pc = "push"
    /\ IF ~seturl_ok
       THEN /\ CpExit(GitFailure)
            /\ UNCHANGED <<cp_env, cp_cmds>>
       ELSE /\ cp_env' = Append(cp_env, <<"HAS_CHANGES", "true">>)
            /\ IF ~revparse_ok
               THEN /\ CpExit(GitFailure)
                    /\ UNCHANGED cp_cmds
               ELSE IF push_ok
               THEN /\ cp_cmds' = Append(cp_cmds, "push")
                    /\ CpExit(0)
               ELSE /\ cp_cmds' = cp_cmds \o <<"push", "push --force-with-lease">>
                    /\ CpExit(IF force_ok THEN 0 ELSE 1)
    /\ UNCHANGED <<cp_base_ref, cp_commits_ahead>>
    /\ UNCHANGED frameCp

CpIdle ==
    /\ cp_pc = "idle"
    /\ cp_base_ref = None
    /\ cp_commits_ahead = None
    /\ cp_env = <<>>
    /\ cp_cmds = <<>>
    /\ cp_exit = -1

CpInit ==
    /\ cp_pc = "stage"
    /\ cp_base_ref = None
    /\ cp_commits_ahead = None
    /\ cp_env = <<>>
    /\ cp_cmds = <<>>
    /\ cp_exit = -1

-----------------------------------------------------------------------------
(* Job orchestrator (agent_runner.core), after sections 4.6 and 7 of the    *)
(* design: it sequences the managers, records every transition on the Job  *)
(* with the Job's own methods, and on COMPLETED or FAILED starts one        *)
(* callback delivery with send_success_callback or send_failure_callback.  *)

\* the inputs of the job, which no step changes
JobId == "j1"
UpstreamRepo == "o/r"
ForkRepo == "b/r"
Branch == "agent"

\* how the fork lifecycle manager and the PR reconciliation can end
ForkEnds == {"ok", "ValueError", "TimeoutError", "Exception", "RequestError"}
ReconcileEnds == {"no_changes", "created", "Exception", "RequestError"}

\* send_callback(callback_url, payload) is entered with its defaults
\* (callback.py:86-88)
CbEnter(url, payload) ==
    /\ cb_pc' = "call"
    /\ cb_url' = url
    /\ cb_payload' = payload
    /\ cb_max_attempts' = DefaultMaxAttempts
    /\ cb_backoff' = DefaultBackoff
    /\ UNCHANGED <<cb_body, cb_headers, cb_attempt, cb_sent, cb_outcomes,
                   cb_sleeps, cb_result, cb_raised>>

OrchDeliver(payload) ==
    /\ CbEnter(job.callback_url, payload)
    /\ orch_deliveries' = Append(orch_deliveries,
          [payload |-> payload, status |-> job'.status])
    /\ orch_pc' = "delivering"

OrchStep(pc) ==
    /\ orch_pc' = pc
    /\ UNCHANGED orch_deliveries
    /\ UNCHANGED cbVars

OrchClock ==
    /\ job_now' = job'.updated_at
    /\ job_calls' = job_calls + 1
    /\ UNCHANGED frameOrch

\* any failure: the error text is recorded, the job is FAILED and the
\* failure callback is sent
OrchFail(error, t) ==
    /\ job' = mark_failed(job, error, t)
    /\ OrchDeliver(send_failure_callback(JobId, error, UpstreamRepo, job.fork_repo))

\* PENDING -> FORKING on start
OrchStart(t) ==
    /\ orch_pc = "start"
    /\ job' = update_status(job, FORKING, t)
    /\ OrchStep("forking")
    /\ OrchClock

\* FORKING -> FORK_READY when the fork lifecycle manager returns, FAILED
\* when it raises
OrchFork(end, t) ==
    /\ orch_pc = "forking"
    /\ IF end = "ok"
       THEN /\ job' = update_status([job EXCEPT !.fork_repo = ForkRepo], FORK_READY, t)
            /\ OrchStep("fork_ready")
       ELSE OrchFail(end, t)
    /\ OrchClock

\* FORK_READY -> TRIGGERED when the dispatch is accepted, FAILED otherwise
OrchDispatch(o, t) ==
    /\ orch_pc = "fork_ready"
    /\ IF o.kind = "response" /\ WfAccepted(o.status)
       THEN /\ job' = update_status(job, TRIGGERED, t)
            /\ OrchStep("triggered")
       ELSE OrchFail(IF o.kind = "response" THEN "Exception" ELSE o.kind, t)
    /\ OrchClock

\* TRIGGERED -> RUNNING, reported by the workflow
OrchRunning(t) ==
    /\ orch_pc = "triggered"
    /\ job' = update_status(job, RUNNING, t)
    /\ OrchStep("running")
    /\ OrchClock

\* what the run of commit_push.py, when this run has one, leaves to the
\* reconciliation: nothing to reconcile when it recorded HAS_CHANGES=false,
\* a failure when it exited with an error, a pull request to create
\* otherwise
CpAllows(end) ==
    \/ cp_pc = "idle"
    \/ /\ cp_pc = "done"
       /\ LET no_changes == \E i \in 1..Len(cp_env) : cp_env[i] = <<"HAS_CHANGES", "false">>
          IN  IF cp_exit # 0 THEN end = "Exception"
              ELSE IF no_changes THEN end = "no_changes"
              ELSE end # "no_changes"

\* RUNNING -> COMPLETED after the reconciliation, with the pull request or
\* without one when there are no changes; RUNNING -> FAILED on its errors
OrchReconcile(end, t) ==
    /\ orch_pc = "running"
    /\ CpAllows(end)
    /\ IF end \in {"no_changes", "created"}
       THEN LET pr_url == IF end = "created" THEN "http://pr/1" ELSE None
            IN  /\ job' = mark_completed([job EXCEPT !.branch = Branch], pr_url, t)
                /\ OrchDeliver(send_success_callback(JobId, pr_url, UpstreamRepo,
                                                     job.fork_repo, Branch))
       ELSE OrchFail(end, t)
    /\ OrchClock

\* CANCELLED from every status that is not terminal; no callback
OrchCancel(t) ==
    /\ orch_pc \in {"start", "forking", "fork_ready", "triggered", "running"}
    /\ job' = update_status(job, CANCELLED, t)
    /\ OrchStep("done")
    /\ OrchClock

\* the delivery ended; whatever it returned, the job is left as it is
OrchDelivered ==
    /\ orch_pc = "delivering"
    /\ cb_pc = "done"
    /\ orch_pc' = "done"
    /\ UNCHANGED <<orch_deliveries, jobVars, cbVars>>
    /\ UNCHANGED frameOrch

OrchIdle ==
    /\ orch_pc = "idle"
    /\ orch_deliveries = <<>>

OrchInit ==
    /\ orch_pc = "start"
    /\ orch_deliveries = <<>>

-----------------------------------------------------------------------------
(* API gateway: client.py:22-91 *)

\* what one HTTP request ends with: a response, whose JSON body is the
\* repository data with or without a "default_branch" key, or a
\* transport-level httpx.RequestError
GwStatuses == {200, 404, 500}
GwBodies == {None, "dev"}
GwOutcomes ==
    {[kind |-> "response", status |-> st, default_branch |-> b] :
        st \in GwStatuses, b \in GwBodies}
    \cup {[kind |-> "RequestError", status |-> 0, default_branch |-> None]}

GwRequests == {"get", "post", "get_repo", "get_default_branch"}

\* self._client: never created, or the connection with its number, open or
\* closed
NoClient == [id |-> 0, is_closed |-> TRUE]

\* _get_client, lines 41-43, with a connection made for every request
get_client_always_new(client) == [id |-> gw_created + 1, is_closed |-> FALSE]

\* _get_client, lines 41-43: the connection a request uses
get_client(client) ==
    IF client = NoClient \/ client.is_closed
    THEN [id |-> gw_created + 1, is_closed |-> FALSE]
    ELSE client

\* line 76, with only "not found" refused
RepoFoundUnless404(status) == status # 404

\* line 76: response.status_code != 200 raises
RepoFound(status) == status = 200

\* what the request op hands to its caller for the outcome o
\* (get / post 50-60, get_repo 75-78, get_default_branch 90-91)
GwResult(op, o) ==
    IF o.kind = "RequestError"
    THEN [kind |-> "raise", exc |-> "RequestError", value |-> None]
    ELSE IF op \in {"get", "post"}
    THEN [kind |-> "return", exc |-> "", value |-> o.status]
    ELSE IF ~RepoFound(o.status)
    THEN [kind |-> "raise", exc |-> "Exception", value |-> None]
    ELSE IF op = "get_repo"
    THEN [kind |-> "return", exc |-> "", value |-> o.default_branch]
    ELSE [kind |-> "return", exc |-> "",
          value |-> IF o.default_branch = None THEN "main" ELSE o.default_branch]

\* one get, post, get_repo or get_default_branch call
GwRequest(op, o) ==
    /\ Len(gw_log) < MaxGatewayCalls
    /\ gw_client' = get_client(gw_client)
    /\ gw_created' = IF gw_client' = gw_client THEN gw_created ELSE gw_created + 1
    /\ gw_open' = gw_open \cup {gw_client'.id}
    /\ gw_log' = Append(gw_log,
          [op |-> op, conn |-> gw_client'.id, outcome |-> o,
           result |-> GwResult(op, o)])
    /\ UNCHANGED frameGw

\* close, lines 47-48
GwClose ==
    /\ Len(gw_log) < MaxGatewayCalls
    /\ IF gw_client # NoClient /\ ~gw_client.is_closed
       THEN /\ gw_client' = [gw_client EXCEPT !.is_closed = TRUE]
            /\ gw_open' = gw_open \ {gw_client.id}
       ELSE UNCHANGED <<gw_client, gw_open>>
    /\ gw_log' = Append(gw_log,
          [op |-> "close", conn |-> gw_client.id,
           outcome |-> [kind |-> "none", status |-> 0, default_branch |-> None],
           result |-> [kind |-> "return", exc |-> "", value |-> None]])
    /\ UNCHANGED gw_created
    /\ UNCHANGED frameGw

GwIdle ==
    /\ gw_client = NoClient
    /\ gw_created = 0
    /\ gw_open = {}
    /\ gw_log = <<>>

-----------------------------------------------------------------------------
(* Specifications *)

SigSpecInit ==
    /\ webhook_secret \in Secrets
    /\ allow_insecure \in BOOLEAN
    /\ SigInit
    /\ CbIdle
    /\ ForkIdle
    /\ PrIdle
    /\ WfIdle
    /\ JobIdle
    /\ OrchIdle
    /\ GwIdle
    /\ CpIdle
    /\ RaceIdle
    /\ ObserverIdle

SigNext ==
    \/ SigGenerate
    \/ SigVerify
    \/ \E signature \in PresentedSignatures : SigVerifyPresented(signature)

SpecSig == SigSpecInit /\ [][SigNext]_vars

CbSpecInit ==
    /\ webhook_secret \in Secrets
    /\ allow_insecure = FALSE
    /\ SigIdle
    /\ CbInit
    /\ ForkIdle
    /\ PrIdle
    /\ WfIdle
    /\ JobIdle
    /\ OrchIdle
    /\ GwIdle
    /\ CpIdle
    /\ RaceIdle
    /\ ObserverIdle

CbNext ==
    \/ CbCall
    \/ \E o \in PostOutcomes : CbAttempt(o)
    \/ CbSleep

SpecCallback == CbSpecInit /\ [][CbNext]_vars

\* the fork manager: two create_or_get_fork calls in sequence, one remote
ForkSpecInit ==
    /\ webhook_secret = None
    /\ allow_insecure = FALSE
    /\ SigIdle
    /\ CbIdle
    /\ ForkInit
    /\ PrIdle
    /\ WfIdle
    /\ JobIdle
    /\ OrchIdle
    /\ GwIdle
    /\ CpIdle
    /\ RaceIdle
    /\ ObserverIdle

ForkNext ==
    \/ FkCall
    \/ \E o \in Faults \cup {Truthful(st) : st \in {200, 404}} : FkGetCandidate(o)
    \/ \E o \in Faults \cup {Truthful(st) : st \in {200, 404}} : FkSyncDefault(o)
    \/ \E o \in Faults \cup {Truthful(st) : st \in {200, 409, 404}} : FkSyncMerge(o)
    \/ \E o \in Faults \cup {Truthful(st) : st \in {202, 404}} : FkPostFork(o)
    \/ \E o \in Faults \cup {Truthful(st) : st \in {200, 404}}, d \in 0..MaxRequestTime :
          FkWaitGet(o, d)
    \/ \E o \in Faults \cup {Truthful(st) : st \in {200, 404}}, d \in 0..MaxRequestTime :
          FkWaitBranches(o, d)
    \/ FkWaitSleep
    \/ FkCallAgain
    \/ RemoteForkAppears
    \/ RemoteForkReady

SpecFork == ForkSpecInit /\ [][ForkNext]_vars

\* the PR reconciler: two create_pr calls in sequence, one remote
PrSpecInit ==
    /\ webhook_secret = None
    /\ allow_insecure = FALSE
    /\ SigIdle
    /\ CbIdle
    /\ fork_timeout = 0
    /\ fork_poll_interval = 0
    /\ remote_upstream \in [exists : BOOLEAN, default_branch : DefaultBranches]
    /\ remote_candidate = Repo(TRUE, <<"a", "/", "a">>, 1)
    /\ faults_left = MaxFaults
    /\ fk_upstream = <<>>
    /\ fk_call = 0
    /\ fk_pc = "idle"
    /\ fk_fork_repo = <<>>
    /\ fk_default_branch = ""
    /\ fk_path = "none"
    /\ fk_log = <<>>
    /\ fk_faulted = FALSE
    /\ fk_elapsed = 0
    /\ fk_poll_time = 0
    /\ fk_all_instant = TRUE
    /\ fk_poll = NoPoll
    /\ fk_results = <<>>
    /\ PrInit
    /\ WfIdle
    /\ JobIdle
    /\ OrchIdle
    /\ GwIdle
    /\ CpIdle
    /\ RaceIdle
    /\ ObserverIdle

PrNext ==
    \/ \E o \in PullFaults \cup {Body(st, <<>>, <<>>, FALSE) : st \in {200, 404}} :
          PrGetDefault(o)
    \/ \E o \in PullFaults \cup {PullExists, PullCreated, NoCommits} : PrPost(o)
    \/ \E o \in PullFaults \cup {Body(200, <<>>, <<>>, FALSE)} : PrDiscover(o)
    \/ PrCallAgain

SpecPR == PrSpecInit /\ [][PrNext]_vars

\* the PR reconciler against a remote that other actors change between and
\* during the calls
PrRemoteNext ==
    \/ PrNext
    \/ RemoteRenamesDefault
    \/ \E i \in 1..(MaxPulls + 2) : RemoteClosesPull(i)

SpecPrRemote == PrSpecInit /\ [][PrRemoteNext]_vars

\* the workflow dispatcher: one trigger_workflow or dispatch call
WfSpecInit ==
    /\ webhook_secret = None
    /\ allow_insecure = FALSE
    /\ SigIdle
    /\ CbIdle
    /\ ForkIdle
    /\ PrIdle
    /\ WfInit
    /\ job = wf_job
    /\ job_now = 0
    /\ job_calls = 0
    /\ OrchIdle
    /\ GwIdle
    /\ CpIdle
    /\ RaceIdle
    /\ ObserverIdle

WfNext == \E o \in WfOutcomes : WfCall(o)

SpecWorkflow == WfSpecInit /\ [][WfNext]_vars

\* a Job and every sequence of calls of its three mutators
JobSpecInit ==
    /\ webhook_secret = None
    /\ allow_insecure = FALSE
    /\ SigIdle
    /\ CbIdle
    /\ ForkIdle
    /\ PrIdle
    /\ WfIdle
    /\ JobInit
    /\ OrchIdle
    /\ GwIdle
    /\ CpIdle
    /\ RaceIdle
    /\ ObserverIdle

JobNext ==
    \/ \E status \in JobStatus, t \in Now : JobUpdateStatus(status, t)
    \/ \E pr_url \in JobPrUrls, t \in Now : JobMarkCompleted(pr_url, t)
    \/ \E error \in JobErrors, t \in Now : JobMarkFailed(error, t)

SpecJob == JobSpecInit /\ [][JobNext]_vars

\* a Job mutated by its sequence, statement by statement, and read by
\* another sequence
ObservedSpecInit ==
    /\ webhook_secret = None
    /\ allow_insecure = FALSE
    /\ SigIdle
    /\ CbIdle
    /\ ForkIdle
    /\ PrIdle
    /\ WfIdle
    /\ JobInit
    /\ ObserverInit
    /\ OrchIdle
    /\ GwIdle
    /\ CpIdle
    /\ RaceIdle

ObservedNext ==
    \/ \E method \in {"update_status", "mark_completed", "mark_failed"},
          status \in JobStatus : JobAssign(method, status)
    \/ \E t \in Now : JobStamp(t)
    \/ JobObserve

SpecJobObserved == ObservedSpecInit /\ [][ObservedNext]_vars

\* one job, orchestrated from PENDING to a terminal status, with the
\* delivery of its callback
OrchSpecInit ==
    /\ webhook_secret \in {None, <<"k">>}
    /\ allow_insecure = FALSE
    /\ SigIdle
    /\ CbIdle
    /\ ForkIdle
    /\ PrIdle
    /\ WfIdle
    /\ JobInit
    /\ OrchInit
    /\ GwIdle
    /\ CpIdle
    /\ RaceIdle
    /\ ObserverIdle

OrchNext ==
    \/ \E t \in Now : OrchStart(t)
    \/ \E end \in ForkEnds, t \in Now : OrchFork(end, t)
    \/ \E o \in WfOutcomes, t \in Now : OrchDispatch(o, t)
    \/ \E t \in Now : OrchRunning(t)
    \/ \E end \in ReconcileEnds, t \in Now : OrchReconcile(end, t)
    \/ \E t \in Now : OrchCancel(t)
    \/ OrchDelivered
    \/ CbCall
    \/ \E o \in PostOutcomes : CbAttempt(o)
    \/ CbSleep

SpecOrch == OrchSpecInit /\ [][OrchNext]_vars

\* the end of one job: commit_push.py runs in the workflow, the job is
\* reconciled and its callback delivered
ChangeSpecInit ==
    /\ webhook_secret \in {None, <<"k">>}
    /\ allow_insecure = FALSE
    /\ SigIdle
    /\ CbIdle
    /\ ForkIdle
    /\ PrIdle
    /\ WfIdle
    /\ job \in {[Job(u, 0) EXCEPT !.status = RUNNING, !.fork_repo = ForkRepo] :
                   u \in {None, "http://hook"}}
    /\ job_now = 0
    /\ job_calls = 4
    /\ orch_pc = "running"
    /\ orch_deliveries = <<>>
    /\ GwIdle
    /\ CpInit
    /\ RaceIdle
    /\ ObserverIdle

ChangeNext ==
    \/ \E config_ok, add_ok, staged, commit_ok \in BOOLEAN :
          CpStage(config_ok, add_ok, staged, commit_ok)
    \/ \E upstream_repo, fetch_ok \in BOOLEAN,
          upstream_count, origin_count \in CommitCounts \cup {None} :
          CpCompare(upstream_repo, fetch_ok, upstream_count, origin_count)
    \/ \E seturl_ok, revparse_ok, push_ok, force_ok \in BOOLEAN :
          CpPush(seturl_ok, revparse_ok, push_ok, force_ok)
    \/ \E end \in ReconcileEnds, t \in Now : OrchReconcile(end, t)
    \/ OrchDelivered
    \/ CbCall
    \/ \E o \in PostOutcomes : CbAttempt(o)
    \/ CbSleep

SpecChange == ChangeSpecInit /\ [][ChangeNext]_vars

\* one GitHubClient and every sequence of calls on it
GwSpecInit ==
    /\ webhook_secret = None
    /\ allow_insecure = FALSE
    /\ SigIdle
    /\ CbIdle
    /\ ForkIdle
    /\ PrIdle
    /\ WfIdle
    /\ JobIdle
    /\ OrchIdle
    /\ GwIdle
    /\ CpIdle
    /\ RaceIdle
    /\ ObserverIdle

GwNext ==
    \/ \E op \in GwRequests, o \in GwOutcomes : GwRequest(op, o)
    \/ GwClose

SpecGateway == GwSpecInit /\ [][GwNext]_vars

\* send_success_callback / send_failure_callback, callback.py:154-215,
\* called for the job of the dispatch: they are given fields of the Job,
\* build the payload and enter send_callback
NotifyJob(success) ==
    /\ wf_pc = "done"
    /\ cb_pc = "idle"
    /\ CbEnter(job.callback_url,
               IF success
               THEN send_success_callback(JobId, "http://pr/1", UpstreamRepo,
                                          job.fork_repo, Branch)
               ELSE send_failure_callback(JobId, "boom", UpstreamRepo, job.fork_repo))
    /\ UNCHANGED <<handlerVars, sigVars, forkVars, prVars, wfVars, jobVars, orchVars,
                   gwVars, cpVars, raceVars, observerVars>>

\* one Job handed to the dispatcher and then to the notifier
WriterSpecInit ==
    /\ webhook_secret \in {None, <<"k">>}
    /\ allow_insecure = FALSE
    /\ SigIdle
    /\ CbIdle
    /\ ForkIdle
    /\ PrIdle
    /\ WfInit
    /\ job = wf_job
    /\ job_now = 0
    /\ job_calls = 0
    /\ OrchIdle
    /\ GwIdle
    /\ CpIdle
    /\ RaceIdle
    /\ ObserverIdle

WriterNext ==
    \/ \E o \in WfOutcomes : WfCall(o)
    \/ \E success \in BOOLEAN : NotifyJob(success)
    \/ CbCall
    \/ \E o \in PostOutcomes : CbAttempt(o)
    \/ CbSleep

SpecSingleWriter == WriterSpecInit /\ [][WriterNext]_vars

\* two jobs naming the same upstream, their create_or_get_fork runs
\* interleaved at every request
RaceSpecInit ==
    /\ webhook_secret = None
    /\ allow_insecure = FALSE
    /\ SigIdle
    /\ CbIdle
    /\ fork_timeout = 0
    /\ fork_poll_interval = 0
    /\ remote_upstream \in UpstreamStates(RaceUpstream)
    /\ remote_candidate \in CandidateStates(RaceUpstream)
    /\ faults_left = MaxFaults
    /\ FkIdle
    /\ RaceInit
    /\ PrIdle
    /\ WfIdle
    /\ JobIdle
    /\ OrchIdle
    /\ GwIdle
    /\ CpIdle
    /\ ObserverIdle

RaceNext ==
    \/ \E r \in Runs, o \in Faults \cup {Truthful(st) : st \in {200, 404}} :
          RaceGetCandidate(r, o)
    \/ \E r \in Runs, o \in Faults \cup {Truthful(st) : st \in {202, 404}} :
          RacePostFork(r, o)
    \/ RemoteForkAppears
    \/ RemoteForkReady

SpecRace == RaceSpecInit /\ [][RaceNext]_vars

-----------------------------------------------------------------------------
(* Callback notifier: properties *)

TransientStatus(o) == IsResponse(o) /\ (o.status = 429 \/ o.status >= 500)

\* C1: a send_callback call with a non-empty URL, a JSON payload and
\* max_attempts = N >= 1 that has returned made exactly N POSTs and returned
\* False if every attempt was answered with a transient status (429 or
\* >= 500), and made exactly 1 POST and returned True if the first attempt
\* was answered with a status < 400.
C1_RetryBound ==
    (cb_pc = "done" /\ cb_url # "" /\ Serializable(cb_payload)
       /\ cb_max_attempts >= 1) =>
        /\ (\A i \in 1..Len(cb_outcomes) : TransientStatus(cb_outcomes[i])) =>
              /\ Len(cb_sent) = cb_max_attempts
              /\ cb_raised = None
              /\ cb_result = FALSE
        /\ (Len(cb_outcomes) >= 1 /\ Success(cb_outcomes[1])) =>
              /\ Len(cb_sent) = 1
              /\ cb_raised = None
              /\ cb_result = TRUE

\* three attempts, all answered with a transient status, then False
C1_Witness ==
    /\ cb_pc = "done"
    /\ cb_max_attempts = 3
    /\ Len(cb_sent) = 3
    /\ \A i \in 1..3 : TransientStatus(cb_outcomes[i])
    /\ cb_result = FALSE

\* C6: send_callback never raises to its caller: for every URL, payload and
\* max_attempts value and every outcome of the POSTs, the call ends by
\* returning a boolean.
C6_NeverRaises == cb_pc = "done" => cb_raised = None

\* C2 as stated: for every secret, the unset and the empty one included, the
\* signature of a payload verifies against that payload and against no
\* other payload.
C2_RoundTripEverySecret ==
    sig_pc = "done" =>
        /\ sig_ok_same
        /\ sig_other # sig_payload => ~sig_ok_other

\* C2, amended: with a non-empty secret the signature of a payload verifies
\* against that payload and against no other payload; with an unset or empty
\* secret the signature is the empty string and verification answers
\* allow_insecure whatever the payload.
C2_RoundTrip ==
    sig_pc = "done" =>
        IF Truthy(webhook_secret)
        THEN /\ sig_ok_same
             /\ sig_other # sig_payload => ~sig_ok_other
        ELSE /\ sig_value = ""
             /\ sig_ok_same = allow_insecure
             /\ sig_ok_other = allow_insecure

\* a signed payload verified, and another payload rejected under its signature
C2_Witness ==
    /\ sig_pc = "done"
    /\ Truthy(webhook_secret)
    /\ sig_other # sig_payload
    /\ sig_ok_same
    /\ ~sig_ok_other

-----------------------------------------------------------------------------
(* Fork lifecycle manager: properties *)

Calls == 1..Len(fk_results)

Posts(log) == {i \in 1..Len(log) : log[i].method = "POST"}

\* the answer to the candidate query of a finished call, 0 without one
CandidateAnswer(r) == IF Len(r.log) >= 1 THEN r.log[1].answer ELSE 0

\* C3: for a well-formed upstream identifier and a remote that answers every
\* request from its state, which nothing but the calls changes, a second
\* create_or_get_fork call after one that returned a fork returns the same
\* fork.
C3_Idempotent ==
    (/\ Len(fk_results) = 2
     /\ WellFormed(fk_upstream)
     /\ fk_results[1].kind = "return"
     /\ ~fk_results[1].faulted
     /\ ~fk_results[2].faulted) =>
        /\ fk_results[2].kind = "return"
        /\ fk_results[2].fork_repo = fk_results[1].fork_repo

\* the first call created the fork and waited for it, the second reused it
C3_Witness ==
    /\ Len(fk_results) = 2
    /\ fk_results[1].kind = "return"
    /\ fk_results[1].path = "create"
    /\ fk_results[2].kind = "return"
    /\ fk_results[2].path = "reuse"
    /\ ~fk_results[1].faulted
    /\ ~fk_results[2].faulted
    /\ fk_results[2].fork_repo = <<"b", "/", "a">>

\* C5 as stated: a wait_for_fork that never saw the fork ready raises
\* TimeoutError no earlier than fork_timeout and no later than fork_timeout +
\* fork_poll_interval after it started, also when the requests take time.
C5_WaitBoundsAnyRequestTime ==
    \A i \in Calls :
        fk_results[i].exc = "TimeoutError" =>
            /\ fk_results[i].elapsed >= fork_timeout
            /\ fk_results[i].elapsed <= fork_timeout + fork_poll_interval

\* C5, amended: TimeoutError is raised no earlier than fork_timeout and no
\* later than fork_timeout + fork_poll_interval + the time the requests of
\* the last poll took; no later than fork_timeout + fork_poll_interval when
\* the requests take no time.
C5_WaitBounds ==
    \A i \in Calls :
        fk_results[i].exc = "TimeoutError" =>
            /\ fk_results[i].elapsed >= fork_timeout
            /\ fk_results[i].elapsed <=
                 fork_timeout + fork_poll_interval + fk_results[i].poll_time
            /\ fk_results[i].all_instant =>
                 fk_results[i].elapsed <= fork_timeout + fork_poll_interval

\* a timeout later than fork_timeout + fork_poll_interval: the requests of
\* the last poll took time
C5_Witness ==
    \E i \in Calls :
        /\ fk_results[i].exc = "TimeoutError"
        /\ fk_results[i].elapsed > fork_timeout + fork_poll_interval
        /\ fk_results[i].poll_time > 0

\* the candidate query of call i was answered 200 with a repository that is
\* not a fork of the upstream
ConflictSeen(i) ==
    /\ CandidateAnswer(fk_results[i]) = 200
    /\ ~(remote_candidate.fork /\ remote_candidate.parent = fk_upstream)

\* C8 as stated: a candidate that exists and is not a fork of the upstream
\* makes the call fail with an error of another class than the one a
\* malformed identifier is refused with, and no POST is sent.
C8_ConflictDistinctError ==
    \A i \in Calls :
        ConflictSeen(i) =>
            /\ fk_results[i].kind = "raise"
            /\ fk_results[i].exc # InvalidFormatError
            /\ Posts(fk_results[i].log) = {}

\* C8, amended: a candidate that exists and is not a fork of the upstream
\* makes the call fail with ValueError, the class a malformed identifier is
\* refused with, told apart by its message only; the candidate query is the
\* only request sent.
C8_ConflictNoMutation ==
    \A i \in Calls :
        ConflictSeen(i) =>
            /\ fk_results[i].kind = "raise"
            /\ fk_results[i].exc = "ValueError"
            /\ fk_results[i].msg = "exists but is not a fork"
            /\ fk_results[i].msg # "Invalid upstream_repo format"
            /\ Len(fk_results[i].log) = 1
            /\ Posts(fk_results[i].log) = {}

\* a call refused because the candidate is a fork of another repository
C8_Witness ==
    \E i \in Calls :
        /\ ConflictSeen(i)
        /\ WellFormed(fk_upstream)
        /\ remote_candidate.fork
        /\ remote_candidate.parent = OtherParent
        /\ fk_results[i].kind = "raise"

\* C9: an upstream_repo that is not owner/name with a non-empty owner and a
\* non-empty name is refused with the validation error before any request is
\* sent.
C9_MalformedRefused ==
    ~WellFormed(fk_upstream) =>
        /\ fk_log = <<>>
        /\ \A i \in Calls :
              /\ fk_results[i].kind = "raise"
              /\ fk_results[i].exc = InvalidFormatError
              /\ fk_results[i].msg = "Invalid upstream_repo format"

\* C10: on the reuse path create_or_get_fork returns the fork whatever
\* happens during the sync.
C10_SyncBestEffort ==
    \A i \in Calls :
        fk_results[i].path = "reuse" =>
            /\ fk_results[i].kind = "return"
            /\ fk_results[i].fork_repo = BotUsername \o <<"/">> \o split(fk_upstream)[2]

PrCalls == 1..Len(pr_results)

\* the creation POST of a finished call was answered "already exists"
ExistsAnswered(r) ==
    \E k \in 1..Len(r.log) : r.log[k].method = "POST" /\ r.log[k].already

\* the discovery query of a finished call got no 200 answer
DiscoveryUnanswered(r) ==
    \E k \in 1..Len(r.log) :
        r.log[k].method = "GET" /\ r.log[k].what = "pulls" /\ r.log[k].answer # 200

\* find_existing_pr(upstream_repo, "<fork_owner>:<branch>"), asked directly
DirectDiscovery ==
    RemoteListPulls(remote_prs, split(pr_fork_repo)[1] \o <<":">> \o pr_branch, "open", 1)

\* C4: a create_pr whose creation POST is answered "already exists" returns
\* the URL find_existing_pr returns for the head <fork_owner>:<branch> (and
\* fails when find_existing_pr fails), and the create_pr calls that return
\* all return one URL.
C4_ExistingPrReturned ==
    /\ \A i \in PrCalls :
          ExistsAnswered(pr_results[i]) =>
              IF DirectDiscovery # <<>> /\ ~DiscoveryUnanswered(pr_results[i])
              THEN /\ pr_results[i].kind = "return"
                   /\ pr_results[i].html_url = DirectDiscovery[1].html_url
              ELSE pr_results[i].kind = "raise"
    /\ \A i, j \in PrCalls :
          (pr_results[i].kind = "return" /\ pr_results[j].kind = "return") =>
              pr_results[i].html_url = pr_results[j].html_url

\* the first call created the pull request, the second was answered "already
\* exists" and returned the same URL, with older pull requests of the head
\* on the remote
C4_Witness ==
    /\ Len(pr_results) = 2
    /\ pr_results[1].via = "created"
    /\ ExistsAnswered(pr_results[2])
    /\ pr_results[2].via = "discovered"
    /\ pr_results[2].html_url = pr_results[1].html_url
    /\ Len(remote_prs) = MaxPulls + 1
    /\ \E k \in 2..Len(remote_prs) : remote_prs[k].head = pr_head

\* C7: a dispatch or trigger_workflow call sends exactly one POST; it returns
\* if the answer's status is 204 and raises otherwise, without another POST.
C7_SinglePostOnly204 ==
    /\ wf_pc = "call" => wf_sent = <<>>
    /\ wf_pc = "done" =>
          /\ Len(wf_sent) = 1
          /\ (wf_result = "return") <=>
                (wf_outcome.kind = "response" /\ wf_outcome.status = 204)
          /\ wf_result \in {"return", "Exception", "RequestError"}

\* a call answered 202 raised after its one POST
C7_Witness ==
    /\ wf_pc = "done"
    /\ wf_outcome.kind = "response"
    /\ wf_outcome.status = 202
    /\ wf_result = "Exception"
    /\ Len(wf_sent) = 1

\* a field of the Job is set when it is not None
IsSet(x) == x # None

Terminal == {COMPLETED, FAILED, CANCELLED}

\* C11: in every state of a Job reached by calls of update_status,
\* mark_completed and mark_failed, error is set if and only if the status is
\* FAILED, and pr_url is set only if the status is COMPLETED.
C11_ErrorIffFailed ==
    /\ IsSet(job.error) <=> job.status = FAILED
    /\ IsSet(job.pr_url) => job.status = COMPLETED

\* C12: once the status of a Job is COMPLETED, FAILED or CANCELLED no call
\* changes it.
C12_TerminalAbsorbing ==
    [][job.status \in Terminal => job'.status = job.status]_vars

\* the status changes of the chain, FAILED from FORKING, FORK_READY and
\* RUNNING, CANCELLED from every status that is not terminal
ChainStep(from, to) ==
    \/ <<from, to>> \in {<<PENDING, FORKING>>, <<FORKING, FORK_READY>>,
                         <<FORK_READY, TRIGGERED>>, <<TRIGGERED, RUNNING>>,
                         <<RUNNING, COMPLETED>>}
    \/ from \in {FORKING, FORK_READY, RUNNING} /\ to = FAILED
    \/ from \notin Terminal /\ to = CANCELLED

\* C13: a Job starts in PENDING and every change of its status is a step of
\* the chain, a failure of FORKING, FORK_READY or RUNNING, or a cancellation
\* of a status that is not terminal.
C13_StatusChain ==
    /\ job.status = PENDING
    /\ [][job'.status # job.status => ChainStep(job.status, job'.status)]_vars

C15_VerifyDecision ==
    sig_pc = "checked" =>
        IF Truthy(webhook_secret)
        THEN sig_ok_presented <=>
                 sig_presented = generate_signature(webhook_secret, sig_other)
        ELSE sig_ok_presented <=> allow_insecure

\* a handler with a secret and allow_insecure set rejected the signature of
\* another payload
C15_Witness ==
    /\ sig_pc = "checked"
    /\ Truthy(webhook_secret)
    /\ allow_insecure
    /\ sig_presented = generate_signature(webhook_secret, sig_payload)
    /\ sig_payload # sig_other
    /\ ~sig_ok_presented

GwCalls == {i \in 1..Len(gw_log) : gw_log[i].op \in GwRequests}

\* C16 as stated: get, post, get_repo and get_default_branch raise only
\* when the request fails at transport level; every HTTP response is handed
\* to the caller.
C16_RaisesOnlyOnTransport ==
    \A i \in GwCalls :
        gw_log[i].outcome.kind = "response" => gw_log[i].result.kind = "return"

\* C16, amended: get and post raise only when the request fails at transport
\* level and hand every HTTP response, 4xx and 5xx included, to the caller;
\* get_repo and get_default_branch also raise Exception for every response
\* whose status is not 200.
C16_GatewayRaises ==
    \A i \in GwCalls :
        LET c == gw_log[i]
        IN  /\ c.outcome.kind = "RequestError" =>
                 c.result.kind = "raise" /\ c.result.exc = "RequestError"
            /\ (c.outcome.kind = "response" /\ c.op \in {"get", "post"}) =>
                 c.result.kind = "return" /\ c.result.value = c.outcome.status
            /\ (c.outcome.kind = "response" /\ c.op \in {"get_repo", "get_default_branch"}) =>
                 IF c.outcome.status = 200
                 THEN c.result.kind = "return"
                 ELSE c.result.kind = "raise" /\ c.result.exc = "Exception"

\* get handed a 500 response to its caller, get_repo raised for one
C16_Witness ==
    \E i, k \in GwCalls :
        /\ gw_log[i].op = "get"
        /\ gw_log[i].outcome.status = 500
        /\ gw_log[i].result.kind = "return"
        /\ gw_log[k].op = "get_repo"
        /\ gw_log[k].outcome.status = 500
        /\ gw_log[k].result.kind = "raise"

\* commit_push.py found HEAD zero commits ahead of the comparison base
ZeroAhead == cp_pc = "done" /\ cp_commits_ahead = "0"

\* what commit_push.py does then: HAS_CHANGES=false and an empty PR_URL are
\* recorded, nothing is pushed, the exit status is 0; and the job completes
\* without a pull request
NoPushNoPr ==
    /\ cp_exit = 0
    /\ cp_env = << <<"HAS_CHANGES", "false">>, <<"PR_URL", "">> >>
    /\ \A i \in 1..Len(cp_cmds) : cp_cmds[i] \notin {"push", "push --force-with-lease"}
    /\ orch_pc # "running" =>
          /\ job.status = COMPLETED
          /\ job.pr_url = None

Retryable(o) ==
    \/ o.kind = "RequestError"
    \/ o.kind = "response" /\ (o.status = 429 \/ o.status >= 500)
Permanent(o) ==
    \/ o.kind = "Exception"
    \/ o.kind = "response" /\ o.status >= 400 /\ o.status <= 499 /\ o.status # 429
Delivered(o) == o.kind = "response" /\ o.status < 400

\* C18: attempt k+1 is made only if attempt k ended with 429, a status
\* >= 500 or a transport-level exception, and k < max_attempts; another 4xx
\* status or another exception ends the sequence at that attempt with
\* False; the result is True exactly when an attempt got a status < 400.
C18_Classification ==
    /\ \A k \in 1..Len(cb_outcomes) :
          /\ k < Len(cb_outcomes) =>
                Retryable(cb_outcomes[k]) /\ k < cb_max_attempts
          /\ Permanent(cb_outcomes[k]) =>
                /\ k = Len(cb_outcomes)
                /\ cb_pc = "done"
                /\ cb_result = FALSE
                /\ cb_raised = None
    /\ Len(cb_sent) = Len(cb_outcomes)
    /\ (cb_pc = "done" /\ cb_raised = None) =>
          (cb_result = TRUE <=>
              \E k \in 1..Len(cb_outcomes) : Delivered(cb_outcomes[k]))

\* a 429, then a transport failure, then a 404 that ended the sequence with
\* an attempt left
C18_Witness ==
    /\ cb_pc = "done"
    /\ cb_max_attempts = 4
    /\ Len(cb_outcomes) = 3
    /\ cb_outcomes[1].status = 429
    /\ cb_outcomes[2].kind = "RequestError"
    /\ cb_outcomes[3].status = 404
    /\ cb_result = FALSE

RECURSIVE SumSeq(_)
SumSeq(q) == IF q = <<>> THEN 0 ELSE Head(q) + SumSeq(Tail(q))

\* C19: the k-th wait of a send_callback call follows the transient failure
\* of attempt k, with k < max_attempts, and lasts backoff_seconds * k; no
\* wait follows the last attempt, a success or a permanent failure; N
\* attempts that all failed transiently waited backoff_seconds * N*(N-1)/2
\* in all.
C19_LinearBackoff ==
    /\ \A k \in 1..Len(cb_sleeps) :
          /\ cb_sleeps[k] = cb_backoff * k
          /\ k < cb_max_attempts
          /\ k <= Len(cb_outcomes)
          /\ Retryable(cb_outcomes[k])
    /\ cb_pc = "done" =>
          /\ Len(cb_sleeps) =
                Cardinality({k \in 1..Len(cb_outcomes) :
                                Retryable(cb_outcomes[k]) /\ k < cb_max_attempts})
          /\ (/\ Len(cb_outcomes) = cb_max_attempts
              /\ cb_max_attempts >= 1
              /\ \A k \in 1..Len(cb_outcomes) : Retryable(cb_outcomes[k])) =>
                2 * SumSeq(cb_sleeps) =
                    cb_backoff * cb_max_attempts * (cb_max_attempts - 1)

\* four attempts that all failed transiently, with three waits
C19_Witness ==
    /\ cb_pc = "done"
    /\ cb_max_attempts = 4
    /\ cb_backoff = 2
    /\ Len(cb_outcomes) = 4
    /\ \A k \in 1..4 : Retryable(cb_outcomes[k])
    /\ cb_sleeps = <<2, 4, 6>>

\* a secret is configured: it is neither None nor empty
SecretConfigured == webhook_secret # None /\ webhook_secret # <<>>

HasSignatureHeader(headers) == \E h \in headers : h[1] = "X-Signature-256"

\* C20: every attempt of one send_callback call sends the same body, the
\* serialized payload, and the same headers; the X-Signature-256 header, the
\* signature of that body, is on every attempt when a secret is configured
\* and on none when none is.
C20_OneBodyOneSignature ==
    \A i \in 1..Len(cb_sent) :
        /\ cb_sent[i].content = cb_sent[1].content
        /\ cb_sent[i].headers = cb_sent[1].headers
        /\ cb_sent[i].content = json_dumps(cb_payload)
        /\ HasSignatureHeader(cb_sent[i].headers) <=> SecretConfigured
        /\ SecretConfigured =>
              <<"X-Signature-256",
                "sha256=" \o hexdigest(hmac_digest(encode(webhook_secret),
                                                   cb_sent[i].content))>>
                  \in cb_sent[i].headers

\* three signed attempts of one call
C20_Witness ==
    /\ Len(cb_sent) = 3
    /\ SecretConfigured
    /\ HasSignatureHeader(cb_sent[3].headers)
    /\ Len(cb_payload) = 2

-----------------------------------------------------------------------------
(* Fork lifecycle manager: creation and readiness *)

\* the call in progress or just finished sent the fork-creation request
ForkRequested == \E i \in 1..Len(fk_log) : fk_log[i].what = "forks"

\* the answer to the candidate query of the call, once it was sent
CandidateAnswered == fk_log # <<>>
FirstAnswer == fk_log[1].answer

\* the call is over and this is how it ended
FkEnded == fk_pc = "done" /\ fk_results # <<>>
FkLast == fk_results[Len(fk_results)]

\* C21: the fork-creation request is sent only when the candidate query
\* reported that the repository does not exist (404); a candidate query
\* that failed in any other way ends the call with an exception at once,
\* and no fork-creation request is sent.
C21_CreateOnlyWhenAbsent ==
    /\ ForkRequested => FirstAnswer = 404
    /\ (CandidateAnswered /\ FirstAnswer \notin {200, 404}) =>
          /\ FkEnded
          /\ FkLast.kind = "raise"
          /\ ~ForkRequested

\* wait_for_fork was entered: the creation request was answered 200 or 202
WaitEntered ==
    /\ fk_path = "create"
    /\ Len(fk_log) = 2
    /\ fk_log[2].what = "forks"
    /\ fk_log[2].answer \in {200, 202}

ObservedReady ==
    /\ fk_poll.repo = 200
    /\ fk_poll.branches = 200
    /\ fk_poll.listed >= 1

\* C22 as stated: wait_for_fork returns only after a poll that saw the fork
\* and at least one branch, and every other run ends with TimeoutError.
C22_ReadyOrTimeout ==
    (FkEnded /\ WaitEntered) =>
        \/ FkLast.kind = "return" /\ ObservedReady
        \/ FkLast.kind = "raise" /\ FkLast.exc = "TimeoutError"

\* C22: wait_for_fork returns only after a poll in which the fork query
\* answered 200 and the branch listing answered 200 with at least one
\* branch; every other run that ends raises: TimeoutError once the deadline
\* has passed, or the transport error of the poll request that got no
\* response.  On the creation path no fork is returned unobserved.
C22_ReadyOrRaises ==
    (FkEnded /\ WaitEntered) =>
        \/ /\ FkLast.kind = "return"
           /\ ObservedReady
           /\ remote_candidate.state = "exists"
           /\ remote_candidate.branches >= 1
        \/ /\ FkLast.kind = "raise"
           /\ FkLast.exc = "TimeoutError"
           /\ fk_elapsed >= fork_timeout
           /\ ~ObservedReady
        \/ /\ FkLast.kind = "raise"
           /\ FkLast.exc = "RequestError"
           /\ \/ fk_poll.repo = 0
              \/ fk_poll.repo = 200 /\ fk_poll.branches = 0

\* a fork returned on the creation path after a poll that was not ready
C22_Witness ==
    /\ FkEnded
    /\ WaitEntered
    /\ FkLast.kind = "return"
    /\ ObservedReady
    /\ fk_elapsed >= 1

\* C29: on the reuse path create_or_get_fork makes no readiness poll and
\* never waits: it returns the fork after one fork query and the sync
\* calls, whatever the number of branches the fork shows.
C29_ReusePathReturns ==
    (FkEnded /\ fk_path = "reuse") =>
        /\ fk_poll = NoPoll
        /\ fk_elapsed = 0
        /\ Cardinality({i \in 1..Len(fk_log) :
                           fk_log[i].method = "GET" /\ fk_log[i].repo = fk_fork_repo}) = 1
        /\ \A i \in 2..Len(fk_log) :
              \/ fk_log[i].method = "GET" /\ fk_log[i].repo = fk_upstream
              \/ fk_log[i].what = "merge-upstream"
        /\ FkLast.kind = "return"
        /\ FkLast.fork_repo = fk_fork_repo

\* the part of C29 about the poll alone
ReusePathNoPoll ==
    fk_path = "reuse" => fk_poll = NoPoll /\ fk_elapsed = 0 /\ ~ForkRequested

-----------------------------------------------------------------------------
(* Two jobs on one upstream: properties *)

\* the next request of a run
RaceStep(r) ==
    \/ \E o \in Faults \cup {Truthful(st) : st \in {200, 404}} : RaceGetCandidate(r, o)
    \/ \E o \in Faults \cup {Truthful(st) : st \in {202, 404}} : RacePostFork(r, o)

SawAbsent(r) ==
    /\ race_log[r] # <<>>
    /\ race_log[r][1].what = "repo"
    /\ race_log[r][1].answer = 404

SentCreation(r) ==
    \E i \in 1..Len(race_log[r]) : race_log[r][i].what = "forks"

\* C23: fork creation is read-then-create and is not serialised between
\* jobs: no run is ever kept from its next request by the position of the
\* other, so a run that saw the fork absent goes on to its creation request
\* whatever the other run has done since; a run sends its creation request
\* only after its own query, and never twice.
C23_NotSerialised ==
    \A r \in Runs :
        /\ race_pc[r] \in {"get_candidate", "post_fork"} => ENABLED RaceStep(r)
        /\ race_pc[r] = "post_fork" =>
              Len(race_log[r]) = 1 /\ race_log[r][1].answer # 200
        /\ SentCreation(r) =>
              /\ Len(race_log[r]) = 2
              /\ race_log[r][1].method = "GET"
              /\ race_log[r][2].method = "POST"

\* both runs saw the fork absent and both sent a creation request that the
\* remote accepted
C23_Witness ==
    \A r \in Runs :
        /\ SawAbsent(r)
        /\ SentCreation(r)
        /\ race_log[r][2].answer = 202
        /\ race_pc[r] = "wait"

-----------------------------------------------------------------------------
(* PR reconciler: base resolution and hard errors *)

IsCreation(q) == q.method = "POST" /\ q.what = "pulls"
IsDiscovery(q) == q.method = "GET" /\ q.what = "pulls"
IsUpstreamQuery(q) == q.method = "GET" /\ q.what = "repo"

\* the requests of one create_pr call: the upstream query comes first, the
\* creation POST carries the base that query returned and the head of the
\* call, and no POST follows an upstream query that did not succeed
BaseResolved(log) ==
    /\ log # <<>> => IsUpstreamQuery(log[1])
    /\ \A k \in 1..Len(log) :
          IsCreation(log[k]) =>
              /\ k = 2
              /\ log[1].answer = 200
              /\ log[k].base = log[1].base
              /\ log[k].head = split(pr_fork_repo)[1] \o <<":">> \o pr_branch
    /\ (log # <<>> /\ log[1].answer # 200) => Len(log) = 1

\* C24: every create_pr call queries the upstream repository before the
\* PR-creation POST; the POST's base is the default branch that query
\* returned in the same call and its head is <fork_owner>:<branch>; a call
\* whose upstream query did not succeed fails without a PR-creation POST.
C24_BasePerCall ==
    /\ BaseResolved(pr_log)
    /\ \A i \in 1..Len(pr_results) :
          /\ BaseResolved(pr_results[i].log)
          /\ pr_results[i].log # <<>>
          /\ pr_results[i].log[1].answer # 200 => pr_results[i].kind = "raise"

\* two calls, the default branch changed between them, each POST with the
\* base of its own call
C24_Witness ==
    /\ Len(pr_results) = 2
    /\ Len(pr_results[1].log) >= 2
    /\ Len(pr_results[2].log) >= 2
    /\ pr_results[1].log[2].base = "main"
    /\ pr_results[2].log[2].base = "dev"
    /\ pr_results[2].kind = "return"

HardError(r) == r.kind = "raise" /\ r.html_url = 0

\* how a finished create_pr call ended, given its requests
HardErrors(r) ==
    /\ \A k \in 1..Len(r.log) :
          /\ (IsCreation(r.log[k]) /\ r.log[k].answer \notin {0, 201}
                  /\ ~r.log[k].already) =>
                (HardError(r) /\ r.exc = "Exception" /\ k = Len(r.log))
          /\ IsDiscovery(r.log[k]) =>
                /\ k = 3
                /\ IsCreation(r.log[2])
                /\ r.log[2].answer \notin {0, 201}
                /\ r.log[2].already
                /\ r.log[k].answer # 200 => HardError(r)
    /\ r.kind = "return" => r.html_url # 0

\* C25: create_pr raises, and returns no URL, when the creation response is
\* a non-201 that does not say "already exists", and when the discovery
\* query lists no open pull request for the head or itself fails; the
\* discovery query is sent only after an "already exists" creation failure.
C25_HardErrors ==
    /\ [](\A i \in 1..Len(pr_results) : HardErrors(pr_results[i]))
    /\ [][(/\ pr_pc = "discover"
           /\ pr_pc' = "done"
           /\ RemoteListPulls(remote_prs, pr_head, "open", 1) = <<>>) =>
              HardError(pr_results'[Len(pr_results')])]_vars

\* "already exists", then a discovery answered 200 that listed nothing: the
\* pull request was closed in between
C25_Witness ==
    /\ pr_pc = "done"
    /\ pr_results # <<>>
    /\ LET r == pr_results[Len(pr_results)]
       IN  /\ Len(r.log) = 3
           /\ r.log[2].already
           /\ r.log[3].answer = 200
           /\ HardError(r)
           /\ ~r.faulted

-----------------------------------------------------------------------------
(* API gateway: the connection *)

IsRequest(i) == gw_log[i].op # "close"

\* the request i is the first one, or the first one after a close
FirstSinceClose(i) ==
    /\ IsRequest(i)
    /\ \/ \A k \in 1..(i - 1) : ~IsRequest(k)
       \/ i > 1 /\ ~IsRequest(i - 1)

\* the connections created up to the call i
CreatedUpTo(i) == Cardinality({k \in 1..i : FirstSinceClose(k)})

\* C28: over every sequence of get, post and close calls on one client, a
\* connection is created only by the first request and by the first request
\* after a close; the requests in between reuse it; at most one connection
\* is open at a time; close leaves none open, and changes nothing when none
\* is open.
C28_ConnectionLifecycle ==
    /\ \A i \in 1..Len(gw_log) : gw_log[i].conn = CreatedUpTo(i)
    /\ gw_created = CreatedUpTo(Len(gw_log))
    /\ Cardinality(gw_open) <= 1
    /\ gw_open = IF gw_log # <<>> /\ IsRequest(Len(gw_log))
                 THEN {gw_created} ELSE {}
    /\ gw_client.id = gw_created
    /\ gw_client.is_closed <=> gw_open = {}

\* a request, a close, and a request on a second connection
C28_Witness ==
    /\ Len(gw_log) = 3
    /\ IsRequest(1)
    /\ gw_log[1].conn = 1
    /\ ~IsRequest(2)
    /\ IsRequest(3)
    /\ gw_log[3].conn = 2
    /\ gw_open = {2}
    /\ gw_created = 2

-----------------------------------------------------------------------------
(* The Job and the managers *)

-----------------------------------------------------------------------------
(* Job: what another sequence reads *)

\* C26: update_status, mark_completed and mark_failed change status and
\* refresh updated_at as one step for every other sequence: whatever
\* another job sequence or an observer reads of a Job is a status with the
\* updated_at of the mutation that set it, never the new status with the
\* old updated_at or the reverse.
C26_NoTornRead ==
    /\ job_seen \in job_written
    /\ job_pc = "idle" => Pair(job) \in job_written

\* a mutation has assigned the status and not yet the timestamp, and what
\* the other sequence holds is the value the mutation before it left
C26_Witness ==
    /\ job_pc = "stamp"
    /\ job.status = RUNNING
    /\ job.updated_at = 1
    /\ job_seen = [status |-> FAILED, updated_at |-> 1]
    /\ Pair(job) \notin job_written
=============================================================================
